---- MODULE Spec2Model ----
(***************************************************************************)
(* Photo-SLAM: the bounded frame-ingest pipeline of                        *)
(* examples/mujoco_rgbd.cpp (producer thread socketReceiver, consumer loop *)
(* of main) and the OpenXR session / frame-cycle state machine of          *)
(* openxr/openxrapp.cpp.                                                   *)
(***************************************************************************)
EXTENDS Integers, Sequences, FiniteSets, TLC

\* ------------------------------------------------------------------------
\* Bounds of the exploration
\* ------------------------------------------------------------------------
\* number of (color, depth) message pairs the transport delivers
MaxPairs == 12
\* number of pairs whose decode may fail
MaxDecodeFail == 1
\* index of the last source message the transport may lose
MaxDropAt == 2

\* number of events the compositor runtime produces
MaxEvents == 4
\* number of events the runtime holds at a time
MaxPending == 1
\* number of platform exit signals (window close, exit key)
MaxSdlExits == 1
\* number of calls of Shutdown
MaxShutdowns == 2

\* largest coordinate of a device position handed to the pose bridge
MaxCoord == 1

\* ------------------------------------------------------------------------
\* Program constants
\* ------------------------------------------------------------------------
MAX_BUFFER_SIZE == 10
\* views of XR_VIEW_CONFIGURATION_TYPE_PRIMARY_STEREO
ViewCount == 2

VARIABLES
    \* ---- mujoco_rgbd.cpp: shared between the two threads
    imageBuffer,     \* std::queue<pair<Mat,Mat>>, front is element 1
    bufferMutex,     \* owner of bufferMutex: "free", "producer", "consumer"
    \* ---- socketReceiver (producer thread)
    ppc,             \* position of the producer
    recvPairs,       \* number of message pairs received so far
    imPair,         \* producer's decoded pair: [id, rgb, depth]
    decodeFails,     \* number of pairs with a failed decode so far
    \* ---- the ZMQ_SUB socket
    srcNext,         \* index of the next source message not yet received
    lost,            \* index of the source message the transport lost, or 0
    \* ---- main (consumer loop)
    cpc,             \* position of the consumer
    images,          \* the pair taken from the queue (auto images)
    ni,              \* int ni
    slamShutDown,    \* what pSLAM->isShutDown() reports
    \* ---- observation of the calls made
    pushLog,         \* pairs pushed, in push order
    popLog,          \* pairs removed by the consumer, in pop order
    evictLog,        \* pairs removed by the producer on overflow
    trackLog,        \* calls of TrackRGBD: [frame, tframe]
    notifyCount,     \* calls of bufferCondVar.notify_one()
    pushesAtDetach   \* pushes made when socket_thread.detach() ran, -1 before

qvars == <<imageBuffer, bufferMutex, ppc, recvPairs, imPair, decodeFails,
           srcNext, lost,
           cpc, images, ni, slamShutDown, pushLog, popLog, evictLog,
           trackLog, notifyCount, pushesAtDetach>>

VARIABLES
    \* ---- openxrapp.cpp: fields of OpenXRApp
    m_instance,        \* XrInstance: "null" or "handle"
    m_session,         \* XrSession: "null" or "handle"
    m_play_space,      \* XrSpace: "null" or "handle"
    m_view_count,      \* uint32_t m_view_count
    m_swapchains,      \* std::vector<XrSwapchain>
    m_quit_mainloop,
    m_session_running,
    m_run_framecycle,
    m_state,           \* XrSessionState
    \* ---- position of the thread that runs InitializeAndRun / Shutdown
    xpc,
    \* ---- the compositor runtime
    evPending,         \* number of events the runtime holds for xrPollEvent
    eventsPosted,      \* number of events the runtime has produced
    held,              \* views with an image acquired and not yet released
    \* ---- observation of the calls made
    xrCalls,           \* session / lifetime requests sent to the runtime
    frameCalls,        \* runtime calls of the frame cycle that has just run
    lastDispatch,      \* the event last handed to ProcessEvent in this drain
    instanceLoss,      \* an InstanceLossPending event has been dispatched
    scenario,          \* progress of the dispatched state changes along
                       \* ReferenceScenario, -1 once they differ from it
    legal,             \* the dispatched state changes follow LegalTransition
    sdlExits,          \* number of platform exit signals seen
    shutdownCalls      \* number of calls of Shutdown

xvars == <<m_instance, m_session, m_play_space, m_view_count, m_swapchains,
           m_quit_mainloop, m_session_running, m_run_framecycle, m_state,
           xpc, evPending, eventsPosted, held, xrCalls, frameCalls,
           lastDispatch, instanceLoss, scenario, legal, sdlExits,
           shutdownCalls>>

VARIABLES
    \* ---- openxrapp.h: the pose bridge
    xrPose,            \* XrPosef handed to ConvertXrPoseToSophusSE3f
    poseOut,           \* the Sophus::SE3f it returned, as [R, t]
    poseT,             \* a 4x4 transform the axis-flip correction is applied to
    flips,             \* number of times the correction was applied to poseT
    posepc             \* position of the caller of the pose bridge

pvars == <<xrPose, poseOut, poseT, flips, posepc>>

vars == <<qvars, xvars, pvars>>

NoPair == [id |-> 0, rgb |-> FALSE, depth |-> FALSE, msgs |-> <<0, 0>>]

\* ------------------------------------------------------------------------
\* std::queue operations used by the program
\* ------------------------------------------------------------------------
QueuePop_Back(q) == SubSeq(q, 1, Len(q) - 1)
QueuePop(q) == Tail(q)
QueuePush(q, x) == Append(q, x)
QueueFront_Back(q) == q[Len(q)]
QueueFront(q) == Head(q)

\* socketReceiver, the guarded block: evict the oldest entry if the buffer
\* is at capacity, then append
BufferPush_NoEvict(q, pair) == QueuePush(q, pair)
BufferPush_DropNewest(q, pair) ==
    IF Len(q) >= MAX_BUFFER_SIZE THEN q ELSE QueuePush(q, pair)
BufferPush(q, pair) ==
    IF Len(q) >= MAX_BUFFER_SIZE
        THEN QueuePush(QueuePop(q), pair)
        ELSE QueuePush(q, pair)

QInit ==
    /\ imageBuffer = <<>>
    /\ bufferMutex = "free"
    /\ ppc = "recv"
    /\ recvPairs = 0
    /\ imPair = NoPair
    /\ decodeFails = 0
    /\ srcNext = 1
    /\ lost = 0
    /\ cpc = "check"
    /\ images = NoPair
    /\ ni = 0
    /\ slamShutDown = FALSE
    /\ pushLog = <<>>
    /\ popLog = <<>>
    /\ evictLog = <<>>
    /\ trackLog = <<>>
    /\ notifyCount = 0
    /\ pushesAtDetach = -1

\* ------------------------------------------------------------------------
\* socketReceiver (producer thread)
\* ------------------------------------------------------------------------
\* the sender publishes two messages per frame, color then depth: source
\* message n is the color image of frame (n+1)/2 if n is odd and the depth
\* image of frame n/2 if n is even
SourceMessage(n) ==
    [frame |-> (n + 1) \div 2, kind |-> IF n % 2 = 1 THEN "color" ELSE "depth"]

\* socket.recv: the first source message from index n on that the transport
\* delivers
Recv(n, lostMsg) == IF n = lostMsg THEN n + 1 ELSE n

RecvPair_Realigned(next, lostMsg) ==
    LET c0 == IF next % 2 = 1 THEN next ELSE next + 1
        c == IF lostMsg \in {c0, c0 + 1} THEN c0 + 2 ELSE c0
    IN  <<c, c + 1>>

\* lines 38-39: the two calls of socket.recv, rgb_msg first, depth_msg second
RecvPair(next, lostMsg) ==
    LET m1 == Recv(next, lostMsg)
        m2 == Recv(m1 + 1, lostMsg)
    IN  <<m1, m2>>

\* a ZMQ_SUB socket (lines 131-134) gives no delivery guarantee: the
\* transport loses one of the next two messages
TransportDrop ==
    /\ lost = 0
    /\ \E n \in {srcNext, srcNext + 1} :
          /\ n <= MaxDropAt
          /\ lost' = n
    /\ UNCHANGED <<imageBuffer, bufferMutex, ppc, recvPairs, imPair,
                   decodeFails, srcNext, cpc, images, ni, slamShutDown,
                   pushLog, popLog, evictLog, trackLog, notifyCount,
                   pushesAtDetach>>
    /\ UNCHANGED <<xvars, pvars>>

ProducerRecv_StopsAtDetach ==
    /\ ppc = "recv"
    /\ pushesAtDetach = -1
    /\ recvPairs < MaxPairs
    /\ \E rgbOk \in BOOLEAN, depthOk \in BOOLEAN :
          /\ (rgbOk /\ depthOk) \/ decodeFails < MaxDecodeFail
          /\ imPair' = [id |-> recvPairs + 1, rgb |-> rgbOk, depth |-> depthOk,
                        msgs |-> RecvPair(srcNext, lost)]
          /\ decodeFails' = IF rgbOk /\ depthOk THEN decodeFails
                                                ELSE decodeFails + 1
    /\ srcNext' = RecvPair(srcNext, lost)[2] + 1
    /\ UNCHANGED <<lost, pushesAtDetach>>
    /\ recvPairs' = recvPairs + 1
    /\ ppc' = "decoded"
    /\ UNCHANGED <<imageBuffer, bufferMutex, cpc, images, ni, slamShutDown,
                   pushLog, popLog, evictLog, trackLog, notifyCount>>
    /\ UNCHANGED <<xvars, pvars>>

\* lines 37-49: receive the next two messages and decode them; the decoder
\* reports each of the two images as empty or not
ProducerRecv ==
    /\ ppc = "recv"
    /\ recvPairs < MaxPairs
    /\ \E rgbOk \in BOOLEAN, depthOk \in BOOLEAN :
          /\ (rgbOk /\ depthOk) \/ decodeFails < MaxDecodeFail
          /\ imPair' = [id |-> recvPairs + 1, rgb |-> rgbOk, depth |-> depthOk,
                        msgs |-> RecvPair(srcNext, lost)]
          /\ decodeFails' = IF rgbOk /\ depthOk THEN decodeFails
                                                ELSE decodeFails + 1
    /\ srcNext' = RecvPair(srcNext, lost)[2] + 1
    /\ UNCHANGED <<lost, pushesAtDetach>>
    /\ recvPairs' = recvPairs + 1
    /\ ppc' = "decoded"
    /\ UNCHANGED <<imageBuffer, bufferMutex, cpc, images, ni, slamShutDown,
                   pushLog, popLog, evictLog, trackLog, notifyCount>>
    /\ UNCHANGED <<xvars, pvars>>

\* line 51: imRGB.empty() || imD.empty()
DecodeFailed_ColorOnly(pair) == ~pair.rgb
DecodeFailed(pair) == ~pair.rgb \/ ~pair.depth

\* lines 51-54: a failed decode goes back to the top of the loop
ProducerCheck ==
    /\ ppc = "decoded"
    /\ ppc' = IF DecodeFailed(imPair) THEN "recv" ELSE "lock"
    /\ UNCHANGED <<imageBuffer, bufferMutex, recvPairs, imPair, decodeFails,
                   cpc, images, ni, slamShutDown, pushLog, popLog, evictLog,
                   trackLog, notifyCount>>
    /\ UNCHANGED <<srcNext, lost, pushesAtDetach>>
    /\ UNCHANGED <<xvars, pvars>>

\* line 57: std::lock_guard<std::mutex> lock(bufferMutex)
ProducerLock ==
    /\ ppc = "lock"
    /\ bufferMutex = "free"
    /\ bufferMutex' = "producer"
    /\ ppc' = "push"
    /\ UNCHANGED <<imageBuffer, recvPairs, imPair, decodeFails, cpc, images,
                   ni, slamShutDown, pushLog, popLog, evictLog, trackLog,
                   notifyCount>>
    /\ UNCHANGED <<srcNext, lost, pushesAtDetach>>
    /\ UNCHANGED <<xvars, pvars>>

\* lines 58-62
ProducerPush ==
    /\ ppc = "push"
    /\ imageBuffer' = BufferPush(imageBuffer, imPair)
    /\ evictLog' = IF Len(imageBuffer) >= MAX_BUFFER_SIZE
                      THEN Append(evictLog, QueueFront(imageBuffer))
                      ELSE evictLog
    /\ pushLog' = Append(pushLog, imPair)
    /\ ppc' = "unlock"
    /\ UNCHANGED <<bufferMutex, recvPairs, imPair, decodeFails, cpc, images,
                   ni, slamShutDown, popLog, trackLog, notifyCount>>
    /\ UNCHANGED <<srcNext, lost, pushesAtDetach>>
    /\ UNCHANGED <<xvars, pvars>>

\* line 63: the lock_guard leaves its scope
ProducerUnlock ==
    /\ ppc = "unlock"
    /\ bufferMutex' = "free"
    /\ ppc' = "notify"
    /\ UNCHANGED <<imageBuffer, recvPairs, imPair, decodeFails, cpc, images,
                   ni, slamShutDown, pushLog, popLog, evictLog, trackLog,
                   notifyCount>>
    /\ UNCHANGED <<srcNext, lost, pushesAtDetach>>
    /\ UNCHANGED <<xvars, pvars>>

ProducerNotify_NoWake ==
    /\ ppc = "notify"
    /\ notifyCount' = notifyCount + 1
    /\ cpc' = cpc
    /\ ppc' = "recv"
    /\ UNCHANGED <<imageBuffer, bufferMutex, recvPairs, imPair, decodeFails,
                   images, ni, slamShutDown, pushLog, popLog, evictLog,
                   trackLog>>
    /\ UNCHANGED <<srcNext, lost, pushesAtDetach>>
    /\ UNCHANGED <<xvars, pvars>>

\* line 64: bufferCondVar.notify_one() unblocks the waiting consumer, if it
\* is waiting; the woken thread has to take the mutex again
ProducerNotify ==
    /\ ppc = "notify"
    /\ notifyCount' = notifyCount + 1
    /\ cpc' = IF cpc = "blocked" THEN "relock" ELSE cpc
    /\ ppc' = "recv"
    /\ UNCHANGED <<imageBuffer, bufferMutex, recvPairs, imPair, decodeFails,
                   images, ni, slamShutDown, pushLog, popLog, evictLog,
                   trackLog>>
    /\ UNCHANGED <<srcNext, lost, pushesAtDetach>>
    /\ UNCHANGED <<xvars, pvars>>

\* ------------------------------------------------------------------------
\* main: the consumer loop
\* ------------------------------------------------------------------------
\* the tracking engine is asked to stop (by one of its own threads)
SlamRequestShutDown ==
    /\ ~slamShutDown
    /\ slamShutDown' = TRUE
    /\ UNCHANGED <<imageBuffer, bufferMutex, ppc, recvPairs, imPair,
                   decodeFails, cpc, images, ni, pushLog, popLog, evictLog,
                   trackLog, notifyCount>>
    /\ UNCHANGED <<srcNext, lost, pushesAtDetach>>
    /\ UNCHANGED <<xvars, pvars>>

\* lines 144-145
ConsumerCheckShutDown ==
    /\ cpc = "check"
    /\ cpc' = IF slamShutDown THEN "done" ELSE "lock"
    /\ UNCHANGED <<imageBuffer, bufferMutex, ppc, recvPairs, imPair,
                   decodeFails, images, ni, slamShutDown, pushLog, popLog,
                   evictLog, trackLog, notifyCount>>
    /\ UNCHANGED <<srcNext, lost, pushesAtDetach>>
    /\ UNCHANGED <<xvars, pvars>>

\* line 147: std::unique_lock<std::mutex> lock(bufferMutex)
ConsumerLock ==
    /\ cpc = "lock"
    /\ bufferMutex = "free"
    /\ bufferMutex' = "consumer"
    /\ cpc' = "wait"
    /\ UNCHANGED <<imageBuffer, ppc, recvPairs, imPair, decodeFails, images,
                   ni, slamShutDown, pushLog, popLog, evictLog, trackLog,
                   notifyCount>>
    /\ UNCHANGED <<srcNext, lost, pushesAtDetach>>
    /\ UNCHANGED <<xvars, pvars>>

\* line 148: the predicate of bufferCondVar.wait
BufferNotEmpty(q) == Len(q) > 0

ConsumerWait_NoPredicate ==
    /\ cpc = "wait"
    /\ cpc' = "pop"
    /\ UNCHANGED <<imageBuffer, bufferMutex, ppc, recvPairs, imPair,
                   decodeFails, images, ni, slamShutDown, pushLog, popLog,
                   evictLog, trackLog, notifyCount>>
    /\ UNCHANGED <<srcNext, lost, pushesAtDetach>>
    /\ UNCHANGED <<xvars, pvars>>

\* line 148: wait(lock, pred) is while (!pred()) wait(lock): with the mutex
\* held the predicate is evaluated; if it is false the mutex is released and
\* the thread blocks
ConsumerWait ==
    /\ cpc = "wait"
    /\ IF BufferNotEmpty(imageBuffer)
          THEN /\ cpc' = "pop"
               /\ UNCHANGED bufferMutex
          ELSE /\ cpc' = "blocked"
               /\ bufferMutex' = "free"
    /\ UNCHANGED <<imageBuffer, ppc, recvPairs, imPair, decodeFails, images,
                   ni, slamShutDown, pushLog, popLog, evictLog, trackLog,
                   notifyCount>>
    /\ UNCHANGED <<srcNext, lost, pushesAtDetach>>
    /\ UNCHANGED <<xvars, pvars>>

\* line 148: a condition variable may wake up without a notification
ConsumerSpuriousWake ==
    /\ cpc = "blocked"
    /\ cpc' = "relock"
    /\ UNCHANGED <<imageBuffer, bufferMutex, ppc, recvPairs, imPair,
                   decodeFails, images, ni, slamShutDown, pushLog, popLog,
                   evictLog, trackLog, notifyCount>>
    /\ UNCHANGED <<srcNext, lost, pushesAtDetach>>
    /\ UNCHANGED <<xvars, pvars>>

\* line 148: the woken thread takes the mutex again and re-evaluates the
\* predicate
ConsumerRelock ==
    /\ cpc = "relock"
    /\ bufferMutex = "free"
    /\ bufferMutex' = "consumer"
    /\ cpc' = "wait"
    /\ UNCHANGED <<imageBuffer, ppc, recvPairs, imPair, decodeFails, images,
                   ni, slamShutDown, pushLog, popLog, evictLog, trackLog,
                   notifyCount>>
    /\ UNCHANGED <<srcNext, lost, pushesAtDetach>>
    /\ UNCHANGED <<xvars, pvars>>

ConsumerPop_NoRemove ==
    /\ cpc = "pop"
    /\ IF Len(imageBuffer) > 0
          THEN /\ images' = QueueFront(imageBuffer)
               /\ imageBuffer' = imageBuffer
          ELSE /\ images' \in {NoPair} \cup {pushLog[i] : i \in 1..Len(pushLog)}
               /\ imageBuffer' = <<>>
    /\ popLog' = Append(popLog, images')
    /\ cpc' = "unlock"
    /\ UNCHANGED <<bufferMutex, ppc, recvPairs, imPair, decodeFails, ni,
                   slamShutDown, pushLog, evictLog, trackLog, notifyCount>>
    /\ UNCHANGED <<srcNext, lost, pushesAtDetach>>
    /\ UNCHANGED <<xvars, pvars>>

\* lines 150-151: front() and pop(); on an empty std::queue both are
\* undefined, the outcome is then any pair and a queue that stays empty
ConsumerPop ==
    /\ cpc = "pop"
    /\ IF Len(imageBuffer) > 0
          THEN /\ images' = QueueFront(imageBuffer)
               /\ imageBuffer' = QueuePop(imageBuffer)
          ELSE /\ images' \in {NoPair} \cup {pushLog[i] : i \in 1..Len(pushLog)}
               /\ imageBuffer' = <<>>
    /\ popLog' = Append(popLog, images')
    /\ cpc' = "unlock"
    /\ UNCHANGED <<bufferMutex, ppc, recvPairs, imPair, decodeFails, ni,
                   slamShutDown, pushLog, evictLog, trackLog, notifyCount>>
    /\ UNCHANGED <<srcNext, lost, pushesAtDetach>>
    /\ UNCHANGED <<xvars, pvars>>

ConsumerUnlock_KeepMutex ==
    /\ cpc = "unlock"
    /\ cpc' = "track"
    /\ UNCHANGED <<imageBuffer, bufferMutex, ppc, recvPairs, imPair,
                   decodeFails, images, ni, slamShutDown, pushLog, popLog,
                   evictLog, trackLog, notifyCount>>
    /\ UNCHANGED <<srcNext, lost, pushesAtDetach>>
    /\ UNCHANGED <<xvars, pvars>>

\* line 152: lock.unlock()
ConsumerUnlock ==
    /\ cpc = "unlock"
    /\ bufferMutex' = "free"
    /\ cpc' = "track"
    /\ UNCHANGED <<imageBuffer, ppc, recvPairs, imPair, decodeFails, images,
                   ni, slamShutDown, pushLog, popLog, evictLog, trackLog,
                   notifyCount>>
    /\ UNCHANGED <<srcNext, lost, pushesAtDetach>>
    /\ UNCHANGED <<xvars, pvars>>

ConsumerTrack_ArrivalStamp ==
    /\ cpc = "track"
    /\ trackLog' = Append(trackLog, [frame |-> images, tframe |-> images.id - 1])
    /\ ni' = ni + 1
    /\ cpc' = "check"
    /\ UNCHANGED <<imageBuffer, bufferMutex, ppc, recvPairs, imPair,
                   decodeFails, images, slamShutDown, pushLog, popLog,
                   evictLog, notifyCount>>
    /\ UNCHANGED <<srcNext, lost, pushesAtDetach>>
    /\ UNCHANGED <<xvars, pvars>>

\* lines 154-175: tframe = ni++ and the call of TrackRGBD
ConsumerTrack ==
    /\ cpc = "track"
    /\ trackLog' = Append(trackLog, [frame |-> images, tframe |-> ni])
    /\ ni' = ni + 1
    /\ cpc' = "check"
    /\ UNCHANGED <<imageBuffer, bufferMutex, ppc, recvPairs, imPair,
                   decodeFails, images, slamShutDown, pushLog, popLog,
                   evictLog, notifyCount>>
    /\ UNCHANGED <<srcNext, lost, pushesAtDetach>>
    /\ UNCHANGED <<xvars, pvars>>

\* lines 179-182, after the loop: pSLAM->Shutdown(), the joins of the
\* training and viewer threads and socket_thread.detach()
MainDetach ==
    /\ cpc = "done"
    /\ cpc' = "detached"
    /\ pushesAtDetach' = Len(pushLog)
    /\ UNCHANGED <<imageBuffer, bufferMutex, ppc, recvPairs, imPair,
                   decodeFails, srcNext, lost, images, ni, slamShutDown,
                   pushLog, popLog, evictLog, trackLog, notifyCount>>
    /\ UNCHANGED <<xvars, pvars>>

\* lines 185-195: the statistics and the trajectories are saved; the model
\* ends before socket.close() (line 197) and the return of main
MainSaveResults ==
    /\ cpc = "detached"
    /\ cpc' = "saved"
    /\ UNCHANGED <<imageBuffer, bufferMutex, ppc, recvPairs, imPair,
                   decodeFails, srcNext, lost, images, ni, slamShutDown,
                   pushLog, popLog, evictLog, trackLog, notifyCount,
                   pushesAtDetach>>
    /\ UNCHANGED <<xvars, pvars>>

\* ------------------------------------------------------------------------
\* openxrapp.cpp: class OpenXRApp
\* ------------------------------------------------------------------------
\* XrSessionState; "OTHER" is a value outside the enumerators the switch names
SessionStates == {"UNKNOWN", "IDLE", "READY", "SYNCHRONIZED", "VISIBLE",
                  "FOCUSED", "STOPPING", "LOSS_PENDING", "EXITING", "OTHER"}

\* XrEventDataBuffer: the event types ProcessEvent distinguishes
StateChanged(s) == [type |-> "SESSION_STATE_CHANGED", state |-> s]
Events ==
    {StateChanged(s) : s \in SessionStates} \cup
    {[type |-> t, state |-> "NONE"] :
        t \in {"INSTANCE_LOSS_PENDING", "INTERACTION_PROFILE_CHANGED", "OTHER"}}

NoEvent == [type |-> "NONE", state |-> "NONE"]

\* the member initializers, lines 208-234
XInit ==
    /\ m_instance = "null"
    /\ m_session = "null"
    /\ m_play_space = "null"
    /\ m_view_count = 0
    /\ m_swapchains = <<>>
    /\ m_quit_mainloop = FALSE
    /\ m_session_running = FALSE
    /\ m_run_framecycle = FALSE
    /\ m_state = "UNKNOWN"
    /\ xpc = "constructed"
    /\ evPending = 0
    /\ eventsPosted = 0
    /\ held = {}
    /\ xrCalls = <<>>
    /\ frameCalls = <<>>
    /\ lastDispatch = NoEvent
    /\ instanceLoss = FALSE
    /\ scenario = 0
    /\ legal = TRUE
    /\ sdlExits = 0
    /\ shutdownCalls = 0

\* the steps of Initialize that can fail, in order (lines 56-89)
InitSteps == <<"CheckInstanceExtensions", "CreateInstance",
               "LoadExtensionFunctions", "GetSystem", "GetViewConfigurations",
               "CheckGraphicsRequirements", "InitializePlatformGraphics",
               "CreateSession", "CreateReferenceSpace", "CreateSwapchains",
               "xrLocateViews">>

StepIndex(name) == CHOOSE k \in 1..Len(InitSteps) : InitSteps[k] = name

\* step `name` was run and succeeded when Initialize fails at step failAt
\* (0: no step fails)
Passed_ContinuesAfterFailure(name, failAt) ==
    failAt = 0 \/ StepIndex(name) # failAt

Passed(name, failAt) == failAt = 0 \/ StepIndex(name) < failAt

\* CreateSwapchains, lines 456-495: the vector is resized to m_view_count
\* null handles, then filled in order; made is the number of swapchains
\* created
SwapchainsMade(made) ==
    [i \in 1..ViewCount |-> IF i <= made THEN "handle" ELSE "null"]

\* Initialize (lines 48-102) as called by InitializeAndRun (lines 139-155):
\* the steps run in order and the first failure returns false
Initialize ==
    /\ xpc = "constructed"
    /\ \E failAt \in 0..Len(InitSteps) :
          /\ m_instance' = IF Passed("CreateInstance", failAt)
                              THEN "handle" ELSE "null"
          /\ m_session' = IF Passed("CreateSession", failAt)
                             THEN "handle" ELSE "null"
          /\ m_play_space' = IF Passed("CreateReferenceSpace", failAt)
                                THEN "handle" ELSE "null"
          /\ IF Passed("GetViewConfigurations", failAt)
                THEN m_view_count' = ViewCount
                ELSE IF failAt = StepIndex("GetViewConfigurations")
                        THEN m_view_count' \in {0, ViewCount}
                        ELSE m_view_count' = 0
          /\ IF Passed("CreateSwapchains", failAt)
                THEN m_swapchains' = SwapchainsMade(ViewCount)
                ELSE IF failAt = StepIndex("CreateSwapchains")
                        THEN m_swapchains' \in
                                {<<>>} \cup {SwapchainsMade(k) : k \in 0..ViewCount}
                        ELSE m_swapchains' = <<>>
          /\ xrCalls' =
                xrCalls
                \o (IF Passed("CreateInstance", failAt)
                       THEN << <<"xrCreateInstance", 0>> >> ELSE <<>>)
                \o (IF Passed("CreateSession", failAt)
                       THEN << <<"xrCreateSession", 0>> >> ELSE <<>>)
                \o (IF Passed("CreateReferenceSpace", failAt)
                       THEN << <<"xrCreateReferenceSpace", 0>> >> ELSE <<>>)
                \o [i \in 1..Cardinality({k \in 1..Len(m_swapchains') :
                                            m_swapchains'[k] = "handle"})
                       |-> <<"xrCreateSwapchain", i>>]
          /\ xpc' = IF failAt = 0 THEN "run_enter" ELSE "init_failed"
    /\ UNCHANGED <<m_quit_mainloop, m_session_running, m_run_framecycle,
                   m_state, evPending, eventsPosted, held, frameCalls,
                   lastDispatch, scenario, legal, sdlExits, shutdownCalls>>
    /\ UNCHANGED instanceLoss
    /\ UNCHANGED <<qvars, pvars>>

\* Run, lines 105-107; Run is public: it is called by InitializeAndRun after
\* Initialize succeeded, or by the owner on an object never initialized
RunEnter ==
    /\ xpc \in {"run_enter", "constructed"}
    /\ m_quit_mainloop' = FALSE
    /\ m_session_running' = FALSE
    /\ xpc' = "loop_test"
    /\ UNCHANGED <<m_instance, m_session, m_play_space, m_view_count,
                   m_swapchains, m_run_framecycle, m_state, evPending,
                   eventsPosted, held, xrCalls, frameCalls, lastDispatch, scenario, legal,
                   sdlExits, shutdownCalls>>
    /\ UNCHANGED instanceLoss
    /\ UNCHANGED <<qvars, pvars>>

\* Run, line 112: while (!m_quit_mainloop)
RunLoopTest ==
    /\ xpc = "loop_test"
    /\ xpc' = IF m_quit_mainloop THEN "run_returned" ELSE "poll_sdl"
    /\ frameCalls' = <<>>
    /\ UNCHANGED <<m_instance, m_session, m_play_space, m_view_count,
                   m_swapchains, m_quit_mainloop, m_session_running,
                   m_run_framecycle, m_state, evPending, eventsPosted, held,
                   xrCalls, lastDispatch, scenario, legal, sdlExits, shutdownCalls>>
    /\ UNCHANGED instanceLoss
    /\ UNCHANGED <<qvars, pvars>>

PollSdlEvents_AlwaysQuits ==
    /\ xpc = "poll_sdl"
    /\ \E exit \in BOOLEAN :
          /\ exit => sdlExits < MaxSdlExits
          /\ sdlExits' = IF exit THEN sdlExits + 1 ELSE sdlExits
          /\ IF exit /\ m_session # "null"
                THEN xrCalls' = Append(xrCalls, <<"xrRequestExitSession", 0>>)
                ELSE UNCHANGED xrCalls
          /\ IF exit
                THEN m_quit_mainloop' = TRUE
                ELSE UNCHANGED m_quit_mainloop
    /\ xpc' = "poll_xr"
    /\ UNCHANGED <<m_instance, m_session, m_play_space, m_view_count,
                   m_swapchains, m_session_running, m_run_framecycle, m_state,
                   evPending, eventsPosted, held, frameCalls, lastDispatch,
                   scenario, legal, shutdownCalls>>
    /\ UNCHANGED instanceLoss
    /\ UNCHANGED <<qvars, pvars>>

\* PollSdlEvents, lines 543-560, called at line 521; exit tells whether an
\* exit signal is among the platform events drained
PollSdlEvents ==
    /\ xpc = "poll_sdl"
    /\ \E exit \in BOOLEAN :
          /\ exit => sdlExits < MaxSdlExits
          /\ sdlExits' = IF exit THEN sdlExits + 1 ELSE sdlExits
          /\ IF exit /\ m_session # "null"
                THEN xrCalls' = Append(xrCalls, <<"xrRequestExitSession", 0>>)
                ELSE UNCHANGED xrCalls
          /\ IF exit /\ m_session = "null"
                THEN m_quit_mainloop' = TRUE
                ELSE UNCHANGED m_quit_mainloop
    /\ xpc' = "poll_xr"
    /\ UNCHANGED <<m_instance, m_session, m_play_space, m_view_count,
                   m_swapchains, m_session_running, m_run_framecycle, m_state,
                   evPending, eventsPosted, held, frameCalls, lastDispatch, scenario, legal,
                   shutdownCalls>>
    /\ UNCHANGED instanceLoss
    /\ UNCHANGED <<qvars, pvars>>

\* the compositor runtime produces an event; which event it is shows when
\* xrPollEvent returns it
RuntimePostEvent ==
    /\ m_instance = "handle"
    /\ xpc \in {"run_enter", "loop_test", "poll_sdl", "poll_xr",
                "framecycle_test", "render"}
    /\ eventsPosted < MaxEvents
    /\ evPending < MaxPending
    /\ evPending' = evPending + 1
    /\ eventsPosted' = eventsPosted + 1
    /\ UNCHANGED <<m_instance, m_session, m_play_space, m_view_count,
                   m_swapchains, m_quit_mainloop, m_session_running,
                   m_run_framecycle, m_state, xpc, held, xrCalls, frameCalls,
                   lastDispatch, scenario, legal, sdlExits, shutdownCalls>>
    /\ UNCHANGED instanceLoss
    /\ UNCHANGED <<qvars, pvars>>

\* ---- HandleSessionStateChanged: the cases of the switch (lines 594-665)
\* each case writes among m_session_running, m_run_framecycle,
\* m_quit_mainloop, m_session and the requests sent to the runtime

CaseReady_NoRunningCheck(beginOk) ==
    LET res == beginOk /\ m_session # "null"
    IN  /\ xrCalls' = Append(xrCalls, <<"xrBeginSession", res>>)
        /\ IF res
              THEN /\ m_session_running' = TRUE
                   /\ m_run_framecycle' = TRUE
                   /\ UNCHANGED m_quit_mainloop
              ELSE /\ m_quit_mainloop' = TRUE
                   /\ UNCHANGED <<m_session_running, m_run_framecycle>>
        /\ UNCHANGED m_session

CaseReady_IgnoresBeginFailure(beginOk) ==
    IF ~m_session_running
       THEN LET res == beginOk /\ m_session # "null"
            IN  /\ xrCalls' = Append(xrCalls, <<"xrBeginSession", res>>)
                /\ IF res
                      THEN /\ m_session_running' = TRUE
                           /\ m_run_framecycle' = TRUE
                      ELSE UNCHANGED <<m_session_running, m_run_framecycle>>
                /\ UNCHANGED <<m_quit_mainloop, m_session>>
       ELSE /\ m_run_framecycle' = TRUE
            /\ UNCHANGED <<m_session_running, m_quit_mainloop, m_session,
                           xrCalls>>

\* lines 595-612; a request on a null session handle fails
CaseReady(beginOk) ==
    IF ~m_session_running
       THEN LET res == beginOk /\ m_session # "null"
            IN  /\ xrCalls' = Append(xrCalls, <<"xrBeginSession", res>>)
                /\ IF res
                      THEN /\ m_session_running' = TRUE
                           /\ m_run_framecycle' = TRUE
                           /\ UNCHANGED m_quit_mainloop
                      ELSE /\ m_quit_mainloop' = TRUE
                           /\ UNCHANGED <<m_session_running, m_run_framecycle>>
                /\ UNCHANGED m_session
       ELSE /\ m_run_framecycle' = TRUE
            /\ UNCHANGED <<m_session_running, m_quit_mainloop, m_session,
                           xrCalls>>

CaseStopping_FatalEndFailure(endOk) ==
    /\ IF m_session_running
          THEN /\ xrCalls' = Append(xrCalls,
                                    <<"xrEndSession", endOk /\ m_session # "null">>)
               /\ m_session_running' = FALSE
               /\ m_quit_mainloop' = (m_quit_mainloop
                                        \/ ~(endOk /\ m_session # "null"))
          ELSE UNCHANGED <<xrCalls, m_session_running, m_quit_mainloop>>
    /\ m_run_framecycle' = FALSE
    /\ UNCHANGED m_session

\* lines 613-628
CaseStopping(endOk) ==
    /\ IF m_session_running
          THEN /\ xrCalls' = Append(xrCalls,
                                    <<"xrEndSession", endOk /\ m_session # "null">>)
               /\ m_session_running' = FALSE
          ELSE UNCHANGED <<xrCalls, m_session_running>>
    /\ m_run_framecycle' = FALSE
    /\ UNCHANGED <<m_quit_mainloop, m_session>>

CaseExiting_KeepsHandle ==
    /\ IF m_session # "null"
          THEN xrCalls' = Append(xrCalls, <<"xrDestroySession", 0>>)
          ELSE UNCHANGED xrCalls
    /\ m_run_framecycle' = FALSE
    /\ m_quit_mainloop' = TRUE
    /\ UNCHANGED <<m_session, m_session_running>>

\* lines 629-642
CaseExiting ==
    /\ IF m_session # "null"
          THEN /\ xrCalls' = Append(xrCalls, <<"xrDestroySession", 0>>)
               /\ m_session' = "null"
          ELSE UNCHANGED <<xrCalls, m_session>>
    /\ m_run_framecycle' = FALSE
    /\ m_quit_mainloop' = TRUE
    /\ UNCHANGED m_session_running

CaseIdle_KeepsFrameCycle ==
    UNCHANGED <<m_run_framecycle, m_session_running, m_quit_mainloop,
                m_session, xrCalls>>

\* lines 643-647
CaseIdle ==
    /\ m_run_framecycle' = FALSE
    /\ UNCHANGED <<m_session_running, m_quit_mainloop, m_session, xrCalls>>

\* lines 648-658
CaseRendering ==
    /\ m_run_framecycle' = TRUE
    /\ UNCHANGED <<m_session_running, m_quit_mainloop, m_session, xrCalls>>

\* lines 659-664
CaseDefault ==
    /\ m_run_framecycle' = FALSE
    /\ UNCHANGED <<m_session_running, m_quit_mainloop, m_session, xrCalls>>

\* lines 590-666
HandleSessionStateChanged(state, beginOk, endOk) ==
    /\ m_state' = state
    /\ CASE state = "READY" -> CaseReady(beginOk)
         [] state = "STOPPING" -> CaseStopping(endOk)
         [] state \in {"EXITING", "LOSS_PENDING"} -> CaseExiting
         [] state = "IDLE" -> CaseIdle
         [] state \in {"FOCUSED", "VISIBLE", "SYNCHRONIZED"} -> CaseRendering
         [] OTHER -> CaseDefault

ProcessEvent_UnhandledQuits(event, beginOk, endOk) ==
    CASE event.type = "SESSION_STATE_CHANGED" ->
            HandleSessionStateChanged(event.state, beginOk, endOk)
      [] event.type = "INTERACTION_PROFILE_CHANGED" ->
            UNCHANGED <<m_state, m_session_running, m_run_framecycle,
                        m_quit_mainloop, m_session, xrCalls>>
      [] OTHER ->
            /\ m_quit_mainloop' = TRUE
            /\ UNCHANGED <<m_state, m_session_running, m_run_framecycle,
                           m_session, xrCalls>>

ProcessEvent_LossStopsFrameCycle(event, beginOk, endOk) ==
    CASE event.type = "INSTANCE_LOSS_PENDING" ->
            /\ m_quit_mainloop' = TRUE
            /\ m_run_framecycle' = FALSE
            /\ UNCHANGED <<m_state, m_session_running, m_session, xrCalls>>
      [] event.type = "SESSION_STATE_CHANGED" ->
            HandleSessionStateChanged(event.state, beginOk, endOk)
      [] OTHER ->
            UNCHANGED <<m_state, m_session_running, m_run_framecycle,
                        m_quit_mainloop, m_session, xrCalls>>

\* lines 563-588
ProcessEvent(event, beginOk, endOk) ==
    CASE event.type = "INSTANCE_LOSS_PENDING" ->
            /\ m_quit_mainloop' = TRUE
            /\ UNCHANGED <<m_state, m_session_running, m_run_framecycle,
                           m_session, xrCalls>>
      [] event.type = "SESSION_STATE_CHANGED" ->
            HandleSessionStateChanged(event.state, beginOk, endOk)
      [] OTHER ->
            UNCHANGED <<m_state, m_session_running, m_run_framecycle,
                        m_quit_mainloop, m_session, xrCalls>>

\* the state changes of the concrete scenario of the specification
ReferenceScenario == <<"READY", "SYNCHRONIZED", "STOPPING", "EXITING">>

ScenarioStep(k, state) ==
    IF k >= 0 /\ k < Len(ReferenceScenario) /\ state = ReferenceScenario[k + 1]
       THEN k + 1 ELSE -1

\* the session lifecycle of the compositor runtime: the state changes a
\* conforming runtime sends (STOPPING -> EXITING as in ReferenceScenario)
LegalTransition(from, to) ==
    \/ to = "LOSS_PENDING" /\ from \notin {"LOSS_PENDING", "EXITING"}
    \/ <<from, to>> \in {<<"UNKNOWN", "IDLE">>, <<"UNKNOWN", "READY">>,
                         <<"IDLE", "READY">>,
                         <<"READY", "SYNCHRONIZED">>,
                         <<"SYNCHRONIZED", "VISIBLE">>, <<"VISIBLE", "FOCUSED">>,
                         <<"FOCUSED", "VISIBLE">>, <<"VISIBLE", "SYNCHRONIZED">>,
                         <<"SYNCHRONIZED", "STOPPING">>, <<"READY", "STOPPING">>,
                         <<"STOPPING", "IDLE">>, <<"STOPPING", "EXITING">>,
                         <<"IDLE", "EXITING">>}

PollEventSuccess_SinglePoll ==
    /\ xpc = "poll_xr"
    /\ evPending > 0
    /\ \E event \in Events, beginOk \in BOOLEAN, endOk \in BOOLEAN :
          /\ ProcessEvent(event, beginOk, endOk)
          /\ lastDispatch' = event
          /\ instanceLoss' = (instanceLoss
                               \/ event.type = "INSTANCE_LOSS_PENDING")
          /\ IF event.type = "SESSION_STATE_CHANGED"
                THEN /\ scenario' = ScenarioStep(scenario, event.state)
                     /\ legal' = (legal /\ LegalTransition(m_state, event.state))
                ELSE UNCHANGED <<scenario, legal>>
    /\ evPending' = evPending - 1
    /\ xpc' = "framecycle_test"
    /\ UNCHANGED <<m_instance, m_play_space, m_view_count, m_swapchains,
                   eventsPosted, held, frameCalls, sdlExits, shutdownCalls>>
    /\ UNCHANGED <<qvars, pvars>>

\* PollEvents, lines 527-530: xrPollEvent returns an event, it is dispatched
\* and the loop polls again
PollEventSuccess ==
    /\ xpc = "poll_xr"
    /\ evPending > 0
    /\ \E event \in Events, beginOk \in BOOLEAN, endOk \in BOOLEAN :
          /\ ProcessEvent(event, beginOk, endOk)
          /\ lastDispatch' = event
          /\ instanceLoss' = (instanceLoss
                               \/ event.type = "INSTANCE_LOSS_PENDING")
          /\ IF event.type = "SESSION_STATE_CHANGED"
                THEN /\ scenario' = ScenarioStep(scenario, event.state)
                     /\ legal' = (legal /\ LegalTransition(m_state, event.state))
                ELSE UNCHANGED <<scenario, legal>>
    /\ evPending' = evPending - 1
    /\ UNCHANGED <<m_instance, m_play_space, m_view_count, m_swapchains, xpc,
                   eventsPosted, held, frameCalls, sdlExits, shutdownCalls>>
    /\ UNCHANGED <<qvars, pvars>>

\* PollEvents, lines 531-533: XR_EVENT_UNAVAILABLE ends the drain; a poll on
\* a null instance handle fails
PollEventUnavailable ==
    /\ xpc = "poll_xr"
    /\ m_instance # "null"
    /\ evPending = 0
    /\ xpc' = "framecycle_test"
    /\ lastDispatch' = NoEvent
    /\ UNCHANGED <<m_instance, m_session, m_play_space, m_view_count,
                   m_swapchains, m_quit_mainloop, m_session_running,
                   m_run_framecycle, m_state, evPending, eventsPosted, held,
                   xrCalls, frameCalls, scenario, legal, sdlExits,
                   shutdownCalls>>
    /\ UNCHANGED instanceLoss
    /\ UNCHANGED <<qvars, pvars>>

\* PollEvents, lines 534-539: any other result of xrPollEvent
PollEventError ==
    /\ xpc = "poll_xr"
    /\ m_quit_mainloop' = TRUE
    /\ xpc' = "framecycle_test"
    /\ lastDispatch' = NoEvent
    /\ UNCHANGED <<m_instance, m_session, m_play_space, m_view_count,
                   m_swapchains, m_session_running, m_run_framecycle, m_state,
                   evPending, eventsPosted, held, xrCalls, frameCalls,
                   scenario, legal, sdlExits, shutdownCalls>>
    /\ UNCHANGED instanceLoss
    /\ UNCHANGED <<qvars, pvars>>

FrameCycleTest_AlwaysRenders ==
    /\ xpc = "framecycle_test"
    /\ xpc' = "render"
    /\ UNCHANGED <<m_instance, m_session, m_play_space, m_view_count,
                   m_swapchains, m_quit_mainloop, m_session_running,
                   m_run_framecycle, m_state, evPending, eventsPosted, held,
                   xrCalls, frameCalls, lastDispatch, scenario, legal,
                   sdlExits, shutdownCalls>>
    /\ UNCHANGED instanceLoss
    /\ UNCHANGED <<qvars, pvars>>

\* Run, lines 115-120
FrameCycleTest ==
    /\ xpc = "framecycle_test"
    /\ xpc' = IF ~m_run_framecycle THEN "loop_test" ELSE "render"
    /\ UNCHANGED <<m_instance, m_session, m_play_space, m_view_count,
                   m_swapchains, m_quit_mainloop, m_session_running,
                   m_run_framecycle, m_state, evPending, eventsPosted, held,
                   xrCalls, frameCalls, lastDispatch, scenario, legal, sdlExits, shutdownCalls>>
    /\ UNCHANGED instanceLoss
    /\ UNCHANGED <<qvars, pvars>>

\* ---- RenderViewToSwapchain, lines 782-942
\* what happens in the view: "ok" uploads and releases; "acquire_fail" and
\* "wait_fail" are failed runtime calls; "esc" is the exit key in one of the
\* two preview windows; "mismatch" is an empty or wrongly sized render
\* buffer; "release_fail" is a failed release
ViewOutcomes == {"ok", "acquire_fail", "wait_fail", "esc", "mismatch",
                 "release_fail"}

\* the runtime calls made for the view, each <<call, view, succeeded>>;
\* the release on a mismatch is best effort, its result is not read
RenderViewCalls(i, o) ==
    CASE o = "acquire_fail" ->
            << <<"xrAcquireSwapchainImage", i, FALSE>> >>
      [] o = "wait_fail" ->
            << <<"xrAcquireSwapchainImage", i, TRUE>>,
               <<"xrWaitSwapchainImage", i, FALSE>> >>
      [] o = "esc" ->
            << <<"xrAcquireSwapchainImage", i, TRUE>>,
               <<"xrWaitSwapchainImage", i, TRUE>> >>
      [] o = "release_fail" ->
            << <<"xrAcquireSwapchainImage", i, TRUE>>,
               <<"xrWaitSwapchainImage", i, TRUE>>,
               <<"xrReleaseSwapchainImage", i, FALSE>> >>
      [] OTHER ->
            << <<"xrAcquireSwapchainImage", i, TRUE>>,
               <<"xrWaitSwapchainImage", i, TRUE>>,
               <<"xrReleaseSwapchainImage", i, TRUE>> >>

\* the return value
RenderViewToSwapchain(o) == o = "ok"

\* the return of the call for view i, recorded after the calls it made
ViewReturn(i, o) ==
    << <<"RenderViewToSwapchain", i, RenderViewToSwapchain(o)>> >>

\* the image acquired for the view is not released when the function returns
RenderViewKeeps(o) == o \in {"wait_fail", "esc", "release_fail"}

RECURSIVE ViewLoop_NoBreak(_, _, _)
ViewLoop_NoBreak(i, outcomes, h) ==
    IF i > m_view_count
       THEN [calls |-> <<>>, ok |-> TRUE, held |-> h]
       ELSE LET o == outcomes[i]
                h2 == IF RenderViewKeeps(o) THEN h \cup {i} ELSE h
                rest == ViewLoop_NoBreak(i + 1, outcomes, h2)
            IN  [calls |-> RenderViewCalls(i, o) \o ViewReturn(i, o)
                           \o rest.calls,
                 ok |-> RenderViewToSwapchain(o) /\ rest.ok,
                 held |-> rest.held]

\* ---- RenderFrameCycle, lines 727-737: the loop over the views stops at
\* the first view that fails
RECURSIVE ViewLoop(_, _, _)
ViewLoop(i, outcomes, h) ==
    IF i > m_view_count
       THEN [calls |-> <<>>, ok |-> TRUE, held |-> h]
       ELSE LET o == outcomes[i]
                h2 == IF RenderViewKeeps(o) THEN h \cup {i} ELSE h
            IN  IF RenderViewToSwapchain(o)
                   THEN LET rest == ViewLoop(i + 1, outcomes, h2)
                        IN  [calls |-> RenderViewCalls(i, o)
                                       \o ViewReturn(i, o) \o rest.calls,
                             ok |-> rest.ok, held |-> rest.held]
                   ELSE [calls |-> RenderViewCalls(i, o) \o ViewReturn(i, o),
                         ok |-> FALSE, held |-> h2]

\* lines 690-717: located_views, set only when xrLocateViews was called,
\* succeeded, returned the expected number of views and both valid bits
LocatedViews_IgnoresCount(shouldRender, locateOk, countOk, posValid, oriValid) ==
    shouldRender /\ locateOk /\ posValid /\ oriValid

LocatedViews(shouldRender, locateOk, countOk, posValid, oriValid) ==
    shouldRender /\ locateOk /\ countOk /\ posValid /\ oriValid

\* the call of xrLocateViews (lines 701-702) with what it returned: whether
\* view_count_output equals view_capacity_input and the two valid bits of
\* viewStateFlags
LocateViewsCall(locateOk, countOk, posValid, oriValid) ==
    << <<"xrLocateViews", <<countOk, posValid, oriValid>>, locateOk>> >>

LayerCount_IgnoresRender(submitted_layers_ok, posValid, oriValid) ==
    IF posValid /\ oriValid THEN 1 ELSE 0

\* lines 758-766
LayerCount(submitted_layers_ok, posValid, oriValid) ==
    IF submitted_layers_ok /\ posValid /\ oriValid THEN 1 ELSE 0

EndFrameCall_SkipEmpty(layers, endOk) ==
    IF layers = 0 THEN <<>> ELSE << <<"xrEndFrame", layers, endOk>> >>

\* line 774: xrEndFrame with frame_end_info.layerCount = layers
EndFrameCall(layers, endOk) == << <<"xrEndFrame", layers, endOk>> >>

\* RenderFrameCycle, lines 678-778: the calls made, the return value and the
\* images held afterwards, for given answers of the runtime and the renderer
FrameCycle(waitOk, beginOk, shouldRender, locateOk, countOk, posValid, oriValid, outcomes, endOk) ==
    IF ~waitOk
       THEN [calls |-> << <<"xrWaitFrame", 0, FALSE>> >>, ok |-> FALSE,
             held |-> held]
    ELSE IF ~beginOk
       THEN [calls |-> << <<"xrWaitFrame", 0, TRUE>>,
                          <<"xrBeginFrame", 0, FALSE>> >>,
             ok |-> FALSE, held |-> held]
    ELSE
       LET located_views == LocatedViews(shouldRender, locateOk, countOk,
                                         posValid, oriValid)
           \* viewStateFlags stay zero when xrLocateViews is not called
           pos == shouldRender /\ posValid
           ori == shouldRender /\ oriValid
           views == IF located_views
                       THEN ViewLoop(1, outcomes, held)
                       ELSE [calls |-> <<>>, ok |-> FALSE, held |-> held]
           layers == LayerCount(views.ok, pos, ori)
       IN  [calls |-> << <<"xrWaitFrame", 0, TRUE>>,
                         <<"xrBeginFrame", 0, TRUE>> >>
                      \o (IF shouldRender
                             THEN LocateViewsCall(locateOk, countOk, posValid,
                                                  oriValid)
                             ELSE <<>>)
                      \o views.calls
                      \o EndFrameCall(layers, endOk),
            ok |-> endOk, held |-> views.held]

\* the return of RenderFrameCycle as Run reads it (line 122), recorded after
\* the calls it made
FrameReturn(ok) == << <<"RenderFrameCycle", 0, ok>> >>

\* the answers to a call: both when the call is made, one fixed value when
\* the call is not made and the answer is never read
Answers(asked) == IF asked THEN BOOLEAN ELSE {TRUE}

\* what happens in the views: the views after the first failing one are not
\* rendered, their entry is never read
ViewAnswers(asked) ==
    IF asked
       THEN {o \in [1..ViewCount -> ViewOutcomes] :
                \A i, j \in 1..ViewCount : (i < j /\ o[i] # "ok") => o[j] = "ok"}
       ELSE {[i \in 1..ViewCount |-> "ok"]}

QuitAfterFrameCycle_IgnoresResult(ok) == m_quit_mainloop

\* Run, lines 122-125: if (!RenderFrameCycle()) m_quit_mainloop = true
QuitAfterFrameCycle(ok) == IF ok THEN m_quit_mainloop ELSE TRUE

\* Run, lines 122-125: one frame cycle; a false return sets the quit flag.
\* A call on a null session handle fails
RenderFrameCycle ==
    /\ xpc = "render"
    /\ \E waitOk \in (IF m_session = "null" THEN {FALSE} ELSE BOOLEAN) :
       \E beginOk \in Answers(waitOk) :
       \E shouldRender \in Answers(waitOk /\ beginOk) :
       \E endOk \in Answers(waitOk /\ beginOk) :
       \E locateOk \in Answers(shouldRender) :
       \E countOk \in Answers(shouldRender /\ locateOk) :
       \E posValid \in Answers(shouldRender) :
       \E oriValid \in Answers(shouldRender) :
       \E outcomes \in ViewAnswers(shouldRender /\ locateOk /\ countOk
                                    /\ posValid /\ oriValid) :
          /\ LET r == FrameCycle(waitOk, beginOk, shouldRender, locateOk,
                                 countOk, posValid, oriValid, outcomes, endOk)
             IN  /\ frameCalls' = r.calls \o FrameReturn(r.ok)
                 /\ held' = r.held
                 /\ m_quit_mainloop' = QuitAfterFrameCycle(r.ok)
    /\ xpc' = "loop_test"
    /\ UNCHANGED <<m_instance, m_session, m_play_space, m_view_count,
                   m_swapchains, m_session_running, m_run_framecycle, m_state,
                   evPending, eventsPosted, xrCalls, lastDispatch, scenario, legal, sdlExits,
                   shutdownCalls>>
    /\ UNCHANGED instanceLoss
    /\ UNCHANGED <<qvars, pvars>>

\* ---- CleanupSwapchains, lines 1131-1143: the destroy calls it makes
CleanupSwapchains ==
    IF m_swapchains # <<>>
       THEN LET live == SelectSeq([i \in 1..m_view_count |-> i],
                                  LAMBDA i : m_swapchains[i] # "null")
            IN  [k \in 1..Len(live) |-> <<"xrDestroySwapchain", live[k]>>]
       ELSE <<>>

Shutdown_KeepsInstance ==
    /\ xpc \in {"constructed", "init_failed", "run_returned", "shut_down"}
    /\ shutdownCalls < MaxShutdowns
    /\ shutdownCalls' = shutdownCalls + 1
    /\ m_quit_mainloop' = TRUE
    /\ m_swapchains' = <<>>
    /\ m_play_space' = "null"
    /\ m_session' = "null"
    /\ m_instance' = m_instance
    /\ xrCalls' =
          xrCalls
          \o CleanupSwapchains
          \o (IF m_play_space # "null"
                 THEN << <<"xrDestroySpace", 0>> >> ELSE <<>>)
          \o (IF m_session # "null" /\ m_state # "EXITING"
                                    /\ m_state # "LOSS_PENDING"
                 THEN << <<"xrDestroySession", 0>> >> ELSE <<>>)
          \o (IF m_instance # "null"
                 THEN << <<"xrDestroyInstance", 0>> >> ELSE <<>>)
    /\ xpc' = "shut_down"
    /\ UNCHANGED <<m_view_count, m_session_running, m_run_framecycle, m_state,
                   evPending, eventsPosted, held, frameCalls, lastDispatch, scenario, legal,
                   sdlExits>>
    /\ UNCHANGED instanceLoss
    /\ UNCHANGED <<qvars, pvars>>

\* Shutdown, lines 157-189, called after Run has returned or Initialize has
\* failed, and by the destructor (lines 38-42)
Shutdown ==
    /\ xpc \in {"constructed", "init_failed", "run_returned", "shut_down"}
    /\ shutdownCalls < MaxShutdowns
    /\ shutdownCalls' = shutdownCalls + 1
    /\ m_quit_mainloop' = TRUE
    /\ m_swapchains' = <<>>
    /\ m_play_space' = "null"
    /\ m_session' = "null"
    /\ m_instance' = "null"
    /\ xrCalls' =
          xrCalls
          \o CleanupSwapchains
          \o (IF m_play_space # "null"
                 THEN << <<"xrDestroySpace", 0>> >> ELSE <<>>)
          \o (IF m_session # "null" /\ m_state # "EXITING"
                                    /\ m_state # "LOSS_PENDING"
                 THEN << <<"xrDestroySession", 0>> >> ELSE <<>>)
          \o (IF m_instance # "null"
                 THEN << <<"xrDestroyInstance", 0>> >> ELSE <<>>)
    /\ xpc' = "shut_down"
    /\ UNCHANGED <<m_view_count, m_session_running, m_run_framecycle, m_state,
                   evPending, eventsPosted, held, frameCalls, lastDispatch, scenario, legal,
                   sdlExits>>
    /\ UNCHANGED instanceLoss
    /\ UNCHANGED <<qvars, pvars>>

\* ------------------------------------------------------------------------
\* openxrapp.h: ConvertXrPoseToSophusSE3f (the pose bridge)
\* ------------------------------------------------------------------------
\* the 4x4 and 3x3 matrices of Eigen, as tuples of rows
Identity4 == <<<<1, 0, 0, 0>>, <<0, 1, 0, 0>>, <<0, 0, 1, 0>>, <<0, 0, 0, 1>>>>

MatMul(A, B) ==
    [i \in 1..4 |-> [j \in 1..4 |->
        A[i][1] * B[1][j] + A[i][2] * B[2][j]
        + A[i][3] * B[3][j] + A[i][4] * B[4][j]]]

\* the indices 1..4 without i
Without(i) == SelectSeq(<<1, 2, 3, 4>>, LAMBDA r : r # i)

\* determinant of M without row i and column j
Minor(M, i, j) ==
    LET r == Without(i)
        c == Without(j)
        a(p, q) == M[r[p]][c[q]]
    IN  a(1, 1) * (a(2, 2) * a(3, 3) - a(2, 3) * a(3, 2))
        - a(1, 2) * (a(2, 1) * a(3, 3) - a(2, 3) * a(3, 1))
        + a(1, 3) * (a(2, 1) * a(3, 2) - a(2, 2) * a(3, 1))

Cofactor(M, i, j) == (IF (i + j) % 2 = 0 THEN 1 ELSE -1) * Minor(M, i, j)

Determinant(M) ==
    M[1][1] * Cofactor(M, 1, 1) + M[1][2] * Cofactor(M, 1, 2)
    + M[1][3] * Cofactor(M, 1, 3) + M[1][4] * Cofactor(M, 1, 4)

\* Eigen::Matrix4f::inverse(): the adjugate over the determinant (the
\* matrices inverted here have determinant 1, the division is exact)
Inverse(M) ==
    [i \in 1..4 |-> [j \in 1..4 |-> Cofactor(M, j, i) \div Determinant(M)]]

\* Eigen::Quaternionf::toRotationMatrix() of a unit quaternion whose
\* components are given in halves (w = hw / 2, ...): the entries
\* 1 - 2(yy + zz), 2(xy - wz), ... are then exact integers for the unit
\* quaternions with all components in {0, 1, -1} or all in {1/2, -1/2}
ToRotationMatrix(q) ==
    LET hw == q.w  hx == q.x  hy == q.y  hz == q.z
    IN  << << 1 - (hy * hy + hz * hz) \div 2, (hx * hy - hw * hz) \div 2,
              (hx * hz + hw * hy) \div 2 >>,
           << (hx * hy + hw * hz) \div 2, 1 - (hx * hx + hz * hz) \div 2,
              (hy * hz - hw * hx) \div 2 >>,
           << (hx * hz - hw * hy) \div 2, (hy * hz + hw * hx) \div 2,
              1 - (hx * hx + hy * hy) \div 2 >> >>

\* the unit quaternions with exact rotation matrices, components in halves
UnitQuaternions ==
    {q \in [x : -2..2, y : -2..2, z : -2..2, w : -2..2] :
        /\ q.x * q.x + q.y * q.y + q.z * q.z + q.w * q.w = 4
        /\ \/ \A c \in {q.x, q.y, q.z, q.w} : c \in {-2, 0, 2}
           \/ \A c \in {q.x, q.y, q.z, q.w} : c \in {-1, 1}}

\* XrPosef
Poses ==
    [orientation : UnitQuaternions,
     position : [x : -MaxCoord..MaxCoord, y : -MaxCoord..MaxCoord,
                 z : -MaxCoord..MaxCoord]]

\* static XrPosef identity_pose = {{0, 0, 0, 1.0f}, {0, 0, 0}}
identity_pose ==
    [orientation |-> [x |-> 0, y |-> 0, z |-> 0, w |-> 2],
     position |-> [x |-> 0, y |-> 0, z |-> 0]]

\* lines 499-503: Twv_xr, rotation block from the orientation, last column
\* from the position
Twv_xr(pose) ==
    LET R == ToRotationMatrix(pose.orientation)
        p == pose.position
    IN  << <<R[1][1], R[1][2], R[1][3], p.x>>,
           <<R[2][1], R[2][2], R[2][3], p.y>>,
           <<R[3][1], R[3][2], R[3][3], p.z>>,
           <<0, 0, 0, 1>> >>

\* line 506
Tvw_xr(pose) == Inverse(Twv_xr(pose))

xr_to_cv_coord_FlipYOnly ==
    <<<<1, 0, 0, 0>>, <<0, -1, 0, 0>>, <<0, 0, 1, 0>>, <<0, 0, 0, 1>>>>

\* lines 510-512: identity with (1,1) and (2,2) set to -1 (0-based)
xr_to_cv_coord ==
    <<<<1, 0, 0, 0>>, <<0, -1, 0, 0>>, <<0, 0, -1, 0>>, <<0, 0, 0, 1>>>>

\* line 516: the correction is applied on the left
ApplyCorrection(T) == MatMul(xr_to_cv_coord, T)

\* lines 520-523: Sophus::SE3f(R, t) from the blocks of a 4x4 matrix
SE3f(T) ==
    [R |-> << <<T[1][1], T[1][2], T[1][3]>>,
              <<T[2][1], T[2][2], T[2][3]>>,
              <<T[3][1], T[3][2], T[3][3]>> >>,
     t |-> <<T[1][4], T[2][4], T[3][4]>>]

\* lines 493-524
ConvertXrPoseToSophusSE3f(pose) == SE3f(ApplyCorrection(Tvw_xr(pose)))

PInit ==
    /\ xrPose = identity_pose
    /\ poseOut = SE3f(Identity4)
    /\ poseT = Identity4
    /\ flips = 0
    /\ posepc = "input"

\* RenderViewToSwapchain, line 822: the located pose of a view is handed to
\* the pose bridge
PoseInput ==
    /\ posepc = "input"
    /\ xrPose' \in Poses
    /\ posepc' = "convert"
    /\ UNCHANGED <<poseOut, poseT, flips>>
    /\ UNCHANGED <<qvars, xvars>>

\* the call of ConvertXrPoseToSophusSE3f; poseT keeps the transform the
\* correction was applied to
PoseConvert ==
    /\ posepc = "convert"
    /\ poseOut' = ConvertXrPoseToSophusSE3f(xrPose)
    /\ poseT' = Tvw_xr(xrPose)
    /\ flips' = 0
    /\ posepc' = "correct"
    /\ UNCHANGED xrPose
    /\ UNCHANGED <<qvars, xvars>>

\* the correction of line 516 applied to poseT
PoseCorrect ==
    /\ posepc = "correct"
    /\ flips < 2
    /\ poseT' = ApplyCorrection(poseT)
    /\ flips' = flips + 1
    /\ UNCHANGED <<xrPose, poseOut, posepc>>
    /\ UNCHANGED <<qvars, xvars>>

PNext ==
    \/ PoseInput
    \/ PoseConvert
    \/ PoseCorrect

XNext ==
    \/ Initialize
    \/ RunEnter
    \/ RunLoopTest
    \/ PollSdlEvents
    \/ RuntimePostEvent
    \/ PollEventSuccess
    \/ PollEventUnavailable
    \/ PollEventError
    \/ FrameCycleTest
    \/ RenderFrameCycle
    \/ Shutdown

Init == QInit /\ XInit /\ PInit

QNext ==
    \/ ProducerRecv
    \/ ProducerCheck
    \/ ProducerLock
    \/ ProducerPush
    \/ ProducerUnlock
    \/ ProducerNotify
    \/ SlamRequestShutDown
    \/ ConsumerCheckShutDown
    \/ ConsumerLock
    \/ ConsumerWait
    \/ ConsumerSpuriousWake
    \/ ConsumerRelock
    \/ ConsumerPop
    \/ ConsumerUnlock
    \/ ConsumerTrack
    \/ MainDetach
    \/ MainSaveResults

\* the steps of the producer thread
ProducerNext ==
    \/ ProducerRecv
    \/ ProducerCheck
    \/ ProducerLock
    \/ ProducerPush
    \/ ProducerUnlock
    \/ ProducerNotify

\* the steps of the main thread; a wake-up without notification is not one
\* of its steps
ConsumerNext ==
    \/ ConsumerCheckShutDown
    \/ ConsumerLock
    \/ ConsumerWait
    \/ ConsumerRelock
    \/ ConsumerPop
    \/ ConsumerUnlock
    \/ ConsumerTrack
    \/ MainDetach
    \/ MainSaveResults

Next == QNext

\* the frame-ingest pipeline of mujoco_rgbd.cpp
Spec == Init /\ [][Next]_vars

\* the pipeline with both threads scheduled: a thread that can take a step
\* eventually takes one
SpecFair ==
    Init /\ [][Next]_vars /\ WF_vars(ProducerNext) /\ WF_vars(ConsumerNext)

\* the same, and a thread that finds the mutex free again and again
\* eventually takes it
SpecFairMutex ==
    /\ SpecFair
    /\ SF_vars(ProducerLock) /\ SF_vars(ConsumerLock) /\ SF_vars(ConsumerRelock)

\* the pipeline on a transport that loses a message
LossyNext == QNext \/ TransportDrop

SpecLossy == Init /\ [][LossyNext]_vars

\* the OpenXR application of openxrapp.cpp
SpecXR == Init /\ [][XNext]_vars

\* the pose bridge of openxrapp.h
SpecPose == Init /\ [][PNext]_vars

\* ========================================================================
\* Properties of the frame-ingest pipeline
\* ========================================================================
Ids(s) == [i \in 1..Len(s) |-> s[i].id]

\* C1: in every reachable state, under any interleaving of the producer's
\* pushes and the consumer's pops, the frame queue holds at most
\* MAX_BUFFER_SIZE = 10 entries.
C1_BufferBounded ==
    /\ MAX_BUFFER_SIZE = 10
    /\ Len(imageBuffer) <= 10

\* the queue is full after an eviction, with pops interleaved
C1_Witness ==
    /\ Len(imageBuffer) = MAX_BUFFER_SIZE
    /\ Len(evictLog) > 0
    /\ Len(popLog) > 0

\* the step of the producer that executes lines 58-62
PushStep == ppc = "push" /\ ppc' = "unlock"

\* C2: a push on q gives q ++ [pair] when length(q) < K and
\* Tail(q) ++ [pair] when length(q) = K: exactly the front entry is evicted,
\* the others keep their order, the new pair is last; and the push always
\* completes, it is enabled whatever the queue holds.
C2_PushResult ==
    /\ [][PushStep =>
            LET q == imageBuffer
                d == IF Len(q) = MAX_BUFFER_SIZE THEN 1 ELSE 0
            IN  /\ Len(imageBuffer') = Len(q) + 1 - d
                /\ imageBuffer'[Len(imageBuffer')] = imPair
                /\ \A i \in 1..(Len(imageBuffer') - 1) :
                       imageBuffer'[i] = q[i + d]
                /\ evictLog' = IF d = 1 THEN Append(evictLog, q[1])
                                        ELSE evictLog]_vars
    /\ [](ppc = "push" => ENABLED ProducerPush)

\* a push on a full queue has just completed
C2_Witness ==
    /\ ppc = "unlock"
    /\ Len(evictLog) > 0
    /\ Len(imageBuffer) = MAX_BUFFER_SIZE
    /\ imageBuffer[MAX_BUFFER_SIZE] = imPair

LastK(s) == SubSeq(s, Len(s) - MAX_BUFFER_SIZE + 1, Len(s))

\* C3: after n > K pushes with no pop in between the queue holds exactly
\* the last K pushed frames in arrival order, and the pops that follow
\* return them oldest first until the queue is empty.
\* The first pop takes the front of the queue, so it took place after
\* n > K pushes exactly when the pair it returned is pushLog[n - K + 1] with
\* n - K + 1 > 1; nothing was pushed since when n = Len(pushLog).
C3_LastKSurvive ==
    /\ (Len(pushLog) > MAX_BUFFER_SIZE /\ popLog = <<>>)
          => imageBuffer = LastK(pushLog)
    /\ (/\ Len(pushLog) > MAX_BUFFER_SIZE
        /\ popLog # <<>>
        /\ popLog[1] = pushLog[Len(pushLog) - MAX_BUFFER_SIZE + 1])
          => popLog \o imageBuffer = LastK(pushLog)

\* f1..f12 were pushed, then f3..f12 were popped in that order
C3_Witness ==
    /\ Ids(pushLog) = [i \in 1..12 |-> i]
    /\ imageBuffer = <<>>
    /\ Ids(popLog) = [i \in 1..10 |-> i + 2]

\* C4: the frames handed to the tracking engine are in strictly increasing
\* arrival order, whatever the interleaving and the evictions.
C4_TrackedInArrivalOrder ==
    \A i, j \in 1..Len(trackLog) :
        i < j => trackLog[i].frame.id < trackLog[j].frame.id

\* two consecutive tracked frames with an evicted frame in between
C4_Witness ==
    \E i \in 1..(Len(trackLog) - 1) : \E e \in 1..Len(evictLog) :
        /\ trackLog[i].frame.id < evictLog[e].id
        /\ evictLog[e].id < trackLog[i + 1].frame.id

ConsumerWaiting == cpc \in {"wait", "blocked", "relock"}

\* C5: the consumer removes an entry only when the queue is not empty and
\* it holds the mutex; the entry it returns is the front entry at that
\* moment; while the queue is empty the consumer stays in the wait and
\* neither reads nor removes an entry.
C5_PopOnlyNonEmpty ==
    /\ [](cpc = "pop" => Len(imageBuffer) > 0 /\ bufferMutex = "consumer")
    /\ [][popLog' # popLog =>
            /\ cpc = "pop"
            /\ Len(imageBuffer) > 0
            /\ bufferMutex = "consumer"
            /\ images' = Head(imageBuffer)
            /\ imageBuffer' = Tail(imageBuffer)
            /\ popLog' = Append(popLog, Head(imageBuffer))]_vars
    /\ [][(ConsumerWaiting /\ Len(imageBuffer) = 0) =>
            /\ ConsumerWaiting'
            /\ images' = images
            /\ popLog' = popLog]_vars

\* the consumer was blocked on the empty queue and has now popped
C5_Witness ==
    /\ cpc = "unlock"
    /\ Len(popLog) > 0
    /\ notifyCount > 0
    /\ images = popLog[Len(popLog)]

ProducerQueueStep ==
    ProducerLock \/ ProducerPush \/ ProducerUnlock \/ ProducerNotify

\* C6: the producer's push is blocked neither by a full queue nor by the
\* consumer processing a frame: while the producer holds a decoded pair and
\* the consumer is in the tracking call or blocked in the wait, the
\* producer's next step is enabled, and the consumer does not hold the
\* mutex.
C6_ProducerNotBlocked ==
    (ppc \in {"lock", "push", "unlock", "notify"} /\ cpc \in {"track", "blocked"})
        => /\ bufferMutex # "consumer"
           /\ ENABLED ProducerQueueStep

\* the queue is full, the consumer is tracking, the producer is about to
\* take the mutex
C6_Witness ==
    /\ ppc = "lock"
    /\ cpc = "track"
    /\ Len(imageBuffer) = MAX_BUFFER_SIZE

\* C7: when the color or the depth decode of a pair fails the pair is
\* discarded: the producer goes back to receiving, the queue is unchanged,
\* nothing is pushed and no notification is sent.
C7_DecodeFailureDrops ==
    /\ [][(ppc = "decoded" /\ (~imPair.rgb \/ ~imPair.depth) /\ ppc' # ppc) =>
            /\ ppc' = "recv"
            /\ imageBuffer' = imageBuffer
            /\ pushLog' = pushLog
            /\ notifyCount' = notifyCount
            /\ cpc' = cpc]_vars
    /\ [](\A i \in 1..Len(pushLog) : pushLog[i].rgb /\ pushLog[i].depth)
    /\ [](notifyCount <= Len(pushLog))

\* a pair failed to decode, was dropped, and a later pair was pushed
C7_Witness ==
    /\ decodeFails > 0
    /\ ppc = "recv"
    /\ \E i \in 1..Len(pushLog) : \E k \in 1..recvPairs :
          /\ k < pushLog[i].id
          /\ \A j \in 1..Len(pushLog) : pushLog[j].id # k

\* C8: the n-th frame handed to the tracking engine carries index n-1,
\* whatever was evicted or dropped in between.
C8_SequenceIndex ==
    \A n \in 1..Len(trackLog) : trackLog[n].tframe = n - 1

\* three frames tracked, with an eviction and a decode failure before the
\* last one
C8_Witness ==
    /\ Len(trackLog) >= 3
    /\ Len(evictLog) > 0
    /\ decodeFails > 0
    /\ trackLog[Len(trackLog)].frame.id > Len(trackLog)

\* ========================================================================
\* Properties of the session state machine
\* ========================================================================
\* the step in which PollEvents hands an event to ProcessEvent
DispatchStep == evPending' < evPending

StateChangeStep ==
    DispatchStep /\ lastDispatch'.type = "SESSION_STATE_CHANGED"

\* the table of the session state machine: frame cycle enabled after
FrameCycleTable(s) == s \in {"READY", "SYNCHRONIZED", "VISIBLE", "FOCUSED"}

LastCall == xrCalls[Len(xrCalls)]
Requested(call) ==
    Len(xrCalls') = Len(xrCalls) + 1 /\ xrCalls'[Len(xrCalls')][1] = call

\* the READY event found the session not running and its xrBeginSession
\* failed
BeginFailedStep ==
    /\ StateChangeStep
    /\ lastDispatch'.state = "READY"
    /\ Requested("xrBeginSession")
    /\ xrCalls'[Len(xrCalls')][2] = FALSE

\* C9 as stated: after every StateChanged(s) of a legal sequence
\* m_run_framecycle equals the table's value for s.
C9_FrameCycleMatchesTable ==
    [][(StateChangeStep /\ legal') =>
          m_run_framecycle' = FrameCycleTable(lastDispatch'.state)]_vars

\* C9, amended: after StateChanged(s) m_run_framecycle is true for
\* SYNCHRONIZED, VISIBLE, FOCUSED and for READY when the session already
\* runs or xrBeginSession succeeds; false for IDLE, STOPPING, EXITING,
\* LOSS_PENDING, UNKNOWN and unrecognized values; after a READY whose
\* xrBeginSession fails it keeps its previous value (false in a legal
\* sequence) and the quit flag is set.
C9_FrameCycleAfterStateChange ==
    [][StateChangeStep =>
          IF BeginFailedStep
             THEN /\ m_run_framecycle' = m_run_framecycle
                  /\ m_quit_mainloop'
                  /\ legal' => ~m_run_framecycle'
             ELSE m_run_framecycle' = FrameCycleTable(lastDispatch'.state)]_vars

\* a legal sequence ended in a READY whose xrBeginSession failed
C9_Witness ==
    /\ lastDispatch = StateChanged("READY")
    /\ legal
    /\ m_state = "READY"
    /\ Len(xrCalls) > 0
    /\ LastCall = <<"xrBeginSession", FALSE>>
    /\ ~m_run_framecycle
    /\ m_quit_mainloop

\* the successful xrBeginSession and the xrEndSession requests, in order
SessionRequests ==
    SelectSeq(xrCalls, LAMBDA c : c = <<"xrBeginSession", TRUE>>
                                  \/ c[1] = "xrEndSession")

CountCalls(call) ==
    Cardinality({i \in 1..Len(xrCalls) : xrCalls[i][1] = call})

IndexOf(call) == CHOOSE i \in 1..Len(xrCalls) : xrCalls[i][1] = call

ExitingStep ==
    StateChangeStep /\ lastDispatch'.state \in {"EXITING", "LOSS_PENDING"}

\* the calls of `call` made in the step
CallsInStep(call) == CountCalls(call)' - CountCalls(call)

\* C11 as stated: when StateChanged(EXITING) or StateChanged(LOSS_PENDING)
\* is dispatched, the session and the instance are each destroyed exactly
\* once at that event and the quit flag is set at that event.
C11_SessionAndInstanceDestroyedAtExiting ==
    [][ExitingStep =>
          /\ CallsInStep("xrDestroySession") = 1
          /\ CallsInStep("xrDestroyInstance") = 1
          /\ m_quit_mainloop']_vars

\* C11, amended: when StateChanged(EXITING) or StateChanged(LOSS_PENDING)
\* is dispatched, the session is destroyed at that event if its handle is
\* not null yet (never twice in a run, exactly once in READY, SYNCHRONIZED,
\* STOPPING, EXITING) and the quit flag is set at that event; the instance is
\* not destroyed at that event: only Shutdown destroys it, exactly once.
C11_SessionDestroyedAtExiting ==
    /\ [][ExitingStep =>
             /\ m_quit_mainloop'
             /\ m_session' = "null"
             /\ xrCalls' = IF m_session # "null"
                              THEN Append(xrCalls, <<"xrDestroySession", 0>>)
                              ELSE xrCalls
             /\ m_instance' = m_instance]_vars
    /\ [](CountCalls("xrDestroySession") <= 1)
    /\ [](CountCalls("xrDestroyInstance") <= 1)
    /\ [][CallsInStep("xrDestroyInstance") > 0 =>
             shutdownCalls' = shutdownCalls + 1]_vars
    /\ []((scenario = Len(ReferenceScenario) /\ shutdownCalls = 0) =>
             /\ CountCalls("xrDestroySession") = 1
             /\ CountCalls("xrDestroyInstance") = 0
             /\ m_quit_mainloop)
    /\ []((shutdownCalls > 0 /\ CountCalls("xrCreateInstance") = 1) =>
             CountCalls("xrDestroyInstance") = 1)

\* READY, SYNCHRONIZED, STOPPING, EXITING were dispatched, the session was
\* destroyed at EXITING and the instance by the Shutdown that followed
C11_Witness ==
    /\ scenario = Len(ReferenceScenario)
    /\ m_state = "EXITING"
    /\ shutdownCalls = 1
    /\ CountCalls("xrDestroySession") = 1
    /\ CountCalls("xrDestroyInstance") = 1
    /\ IndexOf("xrDestroySession") < IndexOf("xrDestroyInstance")

\* no session destroy before the destroy of a swapchain or of the
\* reference space, no instance destroy before the session destroy
DestroyOrder(calls) ==
    \A i, j \in 1..Len(calls) :
        i < j =>
          /\ ~(/\ calls[i][1] = "xrDestroySession"
               /\ calls[j][1] \in {"xrDestroySwapchain", "xrDestroySpace"})
          /\ ~(/\ calls[i][1] = "xrDestroyInstance"
               /\ calls[j][1] = "xrDestroySession")

\* C12: on every shutdown path the recorded sequence of destroy calls never
\* has the session destroy before the destroy of every swapchain and of the
\* reference space, nor the instance destroy before the session destroy.
C12_TeardownOrder == DestroyOrder(xrCalls)

\* C13: every swapchain image acquired by RenderViewToSwapchain is released
\* before it returns for that view, on every exit path: whenever the per-view
\* step has returned, and after end-frame, no acquired image is still held.
C13_AcquiredImageReleased == held = {}

\* ========================================================================
\* Properties of the frame cycle
\* ========================================================================
\* positions in the record of the frame cycle of the calls of `call`
FrameCallsOf(calls, call) == {k \in 1..Len(calls) : calls[k][1] = call}

\* xrBeginFrame succeeded
BeganFrames(calls) ==
    {k \in FrameCallsOf(calls, "xrBeginFrame") : calls[k][3]}

\* C14: in RenderFrameCycle every begin-frame is followed by exactly one
\* end-frame before RenderFrameCycle returns and before the main loop
\* re-checks the quit flag, whatever shouldRender, locate-views and the
\* per-view renders give; no second begin-frame is issued before that
\* end-frame. (A begin-frame call that fails begins no frame and the
\* function returns at once.)
C14_EndFramePairsBeginFrame ==
    LET begins == FrameCallsOf(frameCalls, "xrBeginFrame")
        ends == FrameCallsOf(frameCalls, "xrEndFrame")
        returns == FrameCallsOf(frameCalls, "RenderFrameCycle")
    IN  /\ Cardinality(begins) <= 1
        /\ Cardinality(ends) = Cardinality(BeganFrames(frameCalls))
        /\ \A b \in begins, e \in ends : b < e
        /\ \A e \in ends, r \in returns : e < r
        /\ frameCalls # <<>> => (xpc = "loop_test" /\ returns # {})

\* a frame cycle began a frame, the second view failed to render, and the
\* frame was ended; the loop has not re-checked the quit flag yet
C14_Witness ==
    /\ xpc = "loop_test"
    /\ Len(frameCalls) > 3
    /\ frameCalls[2] = <<"xrBeginFrame", 0, TRUE>>
    /\ \E k \in 1..Len(frameCalls) :
          frameCalls[k] = <<"RenderViewToSwapchain", 2, FALSE>>
    /\ frameCalls[Len(frameCalls) - 1][1] = "xrEndFrame"

\* shouldRender was true and stayed true after xrLocateViews
ShouldRenderHeld(calls) ==
    \E k \in 1..Len(calls) :
        calls[k] = <<"xrLocateViews", <<TRUE, TRUE, TRUE>>, TRUE>>

\* RenderViewToSwapchain returned true for every view
AllViewsRendered(calls) ==
    \A i \in 1..ViewCount :
        \E k \in 1..Len(calls) : calls[k] = <<"RenderViewToSwapchain", i, TRUE>>

\* C15: the layer count submitted at end-frame is 1 if and only if
\* shouldRender was true and stayed true after locate-views (locate
\* succeeded, the view count matched, both valid flags set) and every view's
\* RenderViewToSwapchain succeeded; otherwise it is 0, never another value.
C15_LayerCount ==
    \A k \in FrameCallsOf(frameCalls, "xrEndFrame") :
        frameCalls[k][2] =
            IF ShouldRenderHeld(frameCalls) /\ AllViewsRendered(frameCalls)
               THEN 1 ELSE 0

\* one layer was submitted after both views rendered
C15_Witness ==
    /\ ShouldRenderHeld(frameCalls)
    /\ AllViewsRendered(frameCalls)
    /\ \E k \in FrameCallsOf(frameCalls, "xrEndFrame") : frameCalls[k][2] = 1

\* C16: once the recorded session state is EXITING or LOSS_PENDING, no later
\* StateChanged event changes the recorded state, re-enables the frame cycle
\* or triggers a session-begin or session-end request.
C16_TerminalStateAbsorbing ==
    [][(StateChangeStep /\ m_state \in {"EXITING", "LOSS_PENDING"}) =>
          /\ m_state' = m_state
          /\ ~m_run_framecycle'
          /\ ~Requested("xrBeginSession")
          /\ ~Requested("xrEndSession")]_vars

\* the destroy calls recorded, in order
DestroyCalls ==
    SelectSeq(xrCalls, LAMBDA c : c[1] \in {"xrDestroySwapchain",
                                             "xrDestroySpace",
                                             "xrDestroySession",
                                             "xrDestroyInstance"})

DestroyRank(call) ==
    CASE call = "xrDestroySwapchain" -> 1
      [] call = "xrDestroySpace" -> 2
      [] call = "xrDestroySession" -> 3
      [] call = "xrDestroyInstance" -> 4

\* C17: after Shutdown returns, whatever the session state and the flags
\* were when it was called, no new frame cycle is issued and every
\* swapchain, the reference space, the session and the instance that were
\* created have been destroyed, the destroy calls issued in the order
\* swapchains, space, session, instance.
C17_ShutdownDestroysInOrder ==
    /\ [](shutdownCalls > 0 =>
             /\ CountCalls("xrDestroySwapchain") = CountCalls("xrCreateSwapchain")
             /\ CountCalls("xrDestroySpace") = CountCalls("xrCreateReferenceSpace")
             /\ CountCalls("xrDestroySession") = CountCalls("xrCreateSession")
             /\ CountCalls("xrDestroyInstance") = CountCalls("xrCreateInstance")
             /\ \A i, j \in 1..Len(DestroyCalls) :
                    i < j => DestroyRank(DestroyCalls[i][1])
                               <= DestroyRank(DestroyCalls[j][1]))
    /\ [][shutdownCalls > 0 => (frameCalls' = frameCalls /\ xpc' = "shut_down")]_vars

\* ========================================================================
\* Error handling of the session state machine and of the frame cycle
\* ========================================================================
\* the positions of the thread inside the loop of Run
LoopPcs == {"loop_test", "poll_sdl", "poll_xr", "framecycle_test", "render"}

\* C18: if the xrBeginSession issued on a READY event fails, the quit flag
\* is set and m_session_running stays false; the main loop then terminates
\* at its next quit check: the flag is not cleared inside the loop, the loop
\* starts no tick without the check, and the check with the flag set leaves
\* the loop.
C18_BeginFailureQuits ==
    /\ [][BeginFailedStep =>
             /\ m_quit_mainloop'
             /\ ~m_session_running
             /\ ~m_session_running']_vars
    /\ [][(m_quit_mainloop /\ xpc \in LoopPcs) => m_quit_mainloop']_vars
    /\ [][(xpc' = "poll_sdl" /\ xpc # "poll_sdl") =>
             (xpc = "loop_test" /\ ~m_quit_mainloop)]_vars
    /\ [][(xpc = "loop_test" /\ m_quit_mainloop /\ xpc' # xpc) =>
             xpc' = "run_returned"]_vars
    /\ [](xpc = "loop_test" => ENABLED RunLoopTest)

\* xrBeginSession failed on a live session handle and Run has returned
C18_Witness ==
    /\ xpc = "run_returned"
    /\ m_state = "READY"
    /\ m_session = "handle"
    /\ Len(xrCalls) > 0
    /\ LastCall = <<"xrBeginSession", FALSE>>
    /\ ~m_session_running
    /\ m_quit_mainloop

\* the STOPPING event found the session running: xrEndSession was requested
EndRequestStep ==
    /\ StateChangeStep
    /\ lastDispatch'.state = "STOPPING"
    /\ Requested("xrEndSession")

\* C19: if the xrEndSession issued on a STOPPING event fails, the
\* transition completes exactly as when it succeeds: m_session_running
\* becomes false, m_run_framecycle becomes false, and the quit flag is not
\* set by this event.
C19_EndFailureNotFatal ==
    [][EndRequestStep =>
          /\ m_session_running
          /\ ~m_session_running'
          /\ ~m_run_framecycle'
          /\ m_quit_mainloop' = m_quit_mainloop
          /\ m_state' = "STOPPING"
          /\ m_session' = m_session]_vars

\* xrEndSession has just failed on a live session handle, the quit flag is
\* not set
C19_Witness ==
    /\ lastDispatch = StateChanged("STOPPING")
    /\ m_session = "handle"
    /\ Len(xrCalls) > 0
    /\ LastCall = <<"xrEndSession", FALSE>>
    /\ ~m_session_running
    /\ ~m_run_framecycle
    /\ ~m_quit_mainloop

\* the step of Run that executes RenderFrameCycle
RenderStep == xpc = "render" /\ xpc' = "loop_test"

\* xrLocateViews was called and failed, or returned another view count, or
\* left a valid bit unset
LocateDegraded(calls) ==
    \E k \in FrameCallsOf(calls, "xrLocateViews") :
        ~(calls[k][3] /\ calls[k][2] = <<TRUE, TRUE, TRUE>>)

\* no image acquired, one end-frame, with zero layers
DegradedCycle(calls) ==
    /\ FrameCallsOf(calls, "xrAcquireSwapchainImage") = {}
    /\ Cardinality(FrameCallsOf(calls, "xrEndFrame")) = 1
    /\ \A k \in FrameCallsOf(calls, "xrEndFrame") : calls[k][2] = 0

\* C20 as stated: in a frame cycle where locate-views fails, or returns
\* another view count, or reports a valid flag unset, no swapchain image is
\* acquired, end-frame is called with zero layers, RenderFrameCycle reports
\* success and the quit flag is not set by this cycle.
C20_LocateFailureDegrades ==
    [][(RenderStep /\ LocateDegraded(frameCalls')) =>
          /\ DegradedCycle(frameCalls')
          /\ frameCalls'[Len(frameCalls')] = <<"RenderFrameCycle", 0, TRUE>>
          /\ m_quit_mainloop' = m_quit_mainloop]_vars

\* C20, amended: in such a cycle no swapchain image is acquired and
\* end-frame is called with zero layers; RenderFrameCycle reports success
\* and the quit flag is not set by this cycle when that end-frame call
\* succeeds; when it fails RenderFrameCycle reports failure and the quit
\* flag is set.
C20_LocateFailureDegradesToEndFrame ==
    [][(RenderStep /\ LocateDegraded(frameCalls')) =>
          /\ DegradedCycle(frameCalls')
          /\ \A k \in FrameCallsOf(frameCalls', "xrEndFrame") :
                 /\ frameCalls'[Len(frameCalls')] =
                        <<"RenderFrameCycle", 0, frameCalls'[k][3]>>
                 /\ m_quit_mainloop' = (m_quit_mainloop \/ ~frameCalls'[k][3])]_vars

\* xrLocateViews returned another view count; the frame was ended with zero
\* layers and the loop goes on
C20_Witness ==
    /\ xpc = "loop_test"
    /\ \E k \in FrameCallsOf(frameCalls, "xrLocateViews") :
          frameCalls[k] = <<"xrLocateViews", <<FALSE, TRUE, TRUE>>, TRUE>>
    /\ DegradedCycle(frameCalls)
    /\ frameCalls[Len(frameCalls)] = <<"RenderFrameCycle", 0, TRUE>>
    /\ ~m_quit_mainloop

\* a call of the frame cycle that failed
FailedFrameCall(calls, call) ==
    \E k \in FrameCallsOf(calls, call) : ~calls[k][3]

\* C21: a failure of xrWaitFrame, of xrBeginFrame or of xrEndFrame makes
\* RenderFrameCycle report failure, which sets the quit flag and ends the
\* main loop at its next test; after a failed xrWaitFrame no begin-frame is
\* issued, and after a failed xrBeginFrame no locate, acquire or end-frame
\* call is issued in that cycle.
C21_FrameFailureFatal ==
    /\ [][(/\ RenderStep
            /\ \/ FailedFrameCall(frameCalls', "xrWaitFrame")
               \/ FailedFrameCall(frameCalls', "xrBeginFrame")
               \/ FailedFrameCall(frameCalls', "xrEndFrame")) =>
             /\ frameCalls'[Len(frameCalls')] = <<"RenderFrameCycle", 0, FALSE>>
             /\ m_quit_mainloop'
             /\ xpc' = "loop_test"]_vars
    /\ [](FailedFrameCall(frameCalls, "xrWaitFrame") =>
             frameCalls = << <<"xrWaitFrame", 0, FALSE>>,
                             <<"RenderFrameCycle", 0, FALSE>> >>)
    /\ [](FailedFrameCall(frameCalls, "xrBeginFrame") =>
             frameCalls = << <<"xrWaitFrame", 0, TRUE>>,
                             <<"xrBeginFrame", 0, FALSE>>,
                             <<"RenderFrameCycle", 0, FALSE>> >>)
    /\ [][(xpc = "loop_test" /\ frameCalls # <<>> /\ xpc' # xpc
            /\ frameCalls[Len(frameCalls)] = <<"RenderFrameCycle", 0, FALSE>>) =>
             xpc' = "run_returned"]_vars

\* xrEndFrame failed after both views rendered: the cycle reported failure
\* and the quit flag is set for the next test of the loop
C21_Witness ==
    /\ xpc = "loop_test"
    /\ FailedFrameCall(frameCalls, "xrEndFrame")
    /\ AllViewsRendered(frameCalls)
    /\ frameCalls[Len(frameCalls)] = <<"RenderFrameCycle", 0, FALSE>>
    /\ m_quit_mainloop
    /\ ~instanceLoss
    /\ m_state = "FOCUSED"

\* the step in which PollEvents stops polling
DrainEndStep == xpc = "poll_xr" /\ xpc' = "framecycle_test"

\* C22: in each tick PollEvents keeps polling and dispatching until the
\* runtime reports no event available, also after an event that set the
\* quit flag: the drain ends with events left only on a poll error, which
\* sets the quit flag; without a poll error the runtime's queue is empty
\* when the drain ends.
C22_EventsDrained ==
    /\ [][DrainEndStep =>
             \/ evPending = 0 /\ evPending' = 0
                /\ m_quit_mainloop' = m_quit_mainloop
             \/ m_quit_mainloop' /\ evPending' = evPending]_vars
    /\ [][DispatchStep => (xpc = "poll_xr" /\ xpc' = "poll_xr")]_vars
    /\ []((xpc = "poll_xr" /\ evPending > 0) =>
             (ENABLED PollEventSuccess /\ ~ENABLED PollEventUnavailable))

\* an event was dispatched after an event of the same drain had set the
\* quit flag
C22_Witness ==
    /\ xpc = "poll_xr"
    /\ m_quit_mainloop
    /\ instanceLoss
    /\ lastDispatch.type = "INTERACTION_PROFILE_CHANGED"
    /\ sdlExits = 0

\* the step in which an InstanceLossPending event is dispatched
InstanceLossStep ==
    DispatchStep /\ lastDispatch'.type = "INSTANCE_LOSS_PENDING"

\* C23: when an InstanceLossPending event is dispatched the quit flag is set
\* and no further frame cycle is started after that event, whatever
\* m_run_framecycle is at that moment.
C23_InstanceLossQuitsAtOnce ==
    /\ [][InstanceLossStep => m_quit_mainloop']_vars
    /\ [][instanceLoss => ~RenderStep]_vars

\* the step in which PollSdlEvents sees an exit signal
SdlExitStep == sdlExits' = sdlExits + 1

\* C24: on a platform exit signal PollSdlEvents requests the end of the
\* session (xrRequestExitSession) when the session handle exists and then
\* leaves the quit flag unchanged; with no session handle it sets the quit
\* flag and sends no request to the runtime.
C24_SdlExit ==
    [][SdlExitStep =>
          IF m_session # "null"
             THEN /\ xrCalls' = Append(xrCalls, <<"xrRequestExitSession", 0>>)
                  /\ m_quit_mainloop' = m_quit_mainloop
             ELSE /\ xrCalls' = xrCalls
                  /\ m_quit_mainloop']_vars

\* an exit signal was seen with no session handle: the quit flag is set and
\* nothing was requested
C24_Witness ==
    /\ xpc = "poll_xr"
    /\ sdlExits = 1
    /\ m_session = "null"
    /\ m_quit_mainloop
    /\ xrCalls = <<>>

\* ========================================================================
\* Properties of the pose bridge
\* ========================================================================
\* C25: the fixed axis-flip correction (diagonal 1, -1, -1, 1) is an
\* involution: applied twice to a transform it gives back that transform;
\* and for the identity device pose ConvertXrPoseToSophusSE3f returns the
\* transform with rotation diag(1, -1, -1) and zero translation.
C25_AxisFlipInvolution ==
    /\ xr_to_cv_coord[1][1] = 1 /\ xr_to_cv_coord[2][2] = -1
    /\ xr_to_cv_coord[3][3] = -1 /\ xr_to_cv_coord[4][4] = 1
    /\ (posepc = "correct" /\ flips = 2) => poseT = Tvw_xr(xrPose)
    /\ (posepc = "correct" /\ flips = 1) => SE3f(poseT) = poseOut
    /\ (posepc = "correct" /\ xrPose = identity_pose) =>
          poseOut = [R |-> <<<<1, 0, 0>>, <<0, -1, 0>>, <<0, 0, -1>>>>,
                     t |-> <<0, 0, 0>>]

\* the correction was applied twice to the inverted transform of a pose
\* with a rotation of a third of a turn and a non-zero position
C25_Witness ==
    /\ posepc = "correct"
    /\ flips = 2
    /\ xrPose.orientation = [x |-> 1, y |-> 1, z |-> 1, w |-> 1]
    /\ xrPose.position = [x |-> 1, y |-> 0, z |-> -1]
    /\ poseT # Identity4
    /\ poseT # ApplyCorrection(poseT)

\* ========================================================================
\* Order of the views, of the frame cycles and of the ticks
\* ========================================================================
\* the views whose image was acquired, in the order of the calls
AcquiredViews(calls) ==
    LET acq == SelectSeq(calls, LAMBDA c : c[1] = "xrAcquireSwapchainImage")
    IN  [k \in 1..Len(acq) |-> acq[k][2]]

\* RenderViewToSwapchain returned false for view i
ViewFailed(calls, i) ==
    \E k \in 1..Len(calls) : calls[k] = <<"RenderViewToSwapchain", i, FALSE>>

\* C26: the views are processed in the order 0, 1, ..., viewCount-1 (here
\* 1..ViewCount); when RenderViewToSwapchain fails for view i no later view
\* has its image acquired in that cycle, the cycle submits zero layers, and
\* the failure is not fatal: RenderFrameCycle reports what end-frame
\* reports, so with end-frame succeeding the quit flag is not set by the
\* cycle and the loop goes on.
C26_ViewFailureStopsViews ==
    [][RenderStep =>
          LET c == frameCalls'
          IN  /\ \A k \in 1..Len(AcquiredViews(c)) : AcquiredViews(c)[k] = k
              /\ \A i \in 1..ViewCount :
                     ViewFailed(c, i) =>
                       /\ Len(AcquiredViews(c)) <= i
                       /\ Cardinality(FrameCallsOf(c, "xrEndFrame")) = 1
                       /\ \A k \in FrameCallsOf(c, "xrEndFrame") :
                              /\ c[k][2] = 0
                              /\ c[Len(c)] = <<"RenderFrameCycle", 0, c[k][3]>>
                              /\ m_quit_mainloop' = (m_quit_mainloop \/ ~c[k][3])
                       /\ xpc' = "loop_test"]_vars

\* the first view failed to render, the second was not touched, the frame
\* was ended with zero layers and the quit flag is not set
C26_Witness ==
    /\ xpc = "loop_test"
    /\ ViewFailed(frameCalls, 1)
    /\ AcquiredViews(frameCalls) = <<1>>
    /\ frameCalls[Len(frameCalls)] = <<"RenderFrameCycle", 0, TRUE>>
    /\ ~m_quit_mainloop
    /\ m_run_framecycle

\* C27: per-view processing is strictly sequential: in every reachable
\* state at most one swapchain image is acquired and not yet released, the
\* image of view i+1 is acquired only after the image of view i was
\* released, and no image acquired in one cycle is still held when the next
\* cycle's begin-frame is issued.
C27_OneImageAtATime ==
    /\ Cardinality(held) <= 1
    /\ xpc = "render" => held = {}
    /\ \A k \in FrameCallsOf(frameCalls, "xrAcquireSwapchainImage") :
          frameCalls[k][2] > 1 =>
            \E j \in 1..(k - 1) :
                frameCalls[j] = <<"xrReleaseSwapchainImage",
                                  frameCalls[k][2] - 1, TRUE>>

\* C28: in each tick the events are dispatched first and then at most one
\* frame cycle runs, only if m_run_framecycle is true after the dispatch of
\* that tick; while it is false no wait-frame, begin-frame or end-frame call
\* is issued and the loop only keeps polling.
C28_FrameCycleOnlyWhenEnabled ==
    /\ [](m_state \in {"IDLE", "STOPPING", "UNKNOWN", "EXITING", "LOSS_PENDING"}
             => ~m_run_framecycle)
    /\ [][RenderStep => m_run_framecycle]_vars
    /\ [][(frameCalls' # frameCalls /\ frameCalls' # <<>>) => RenderStep]_vars
    /\ [](Cardinality(FrameCallsOf(frameCalls, "xrWaitFrame")) <= 1)
    /\ [][DispatchStep => xpc = "poll_xr"]_vars
    /\ [][(xpc' = "render" /\ xpc # "render") =>
             (xpc = "framecycle_test" /\ m_run_framecycle)]_vars
    /\ [][(xpc = "framecycle_test" /\ ~m_run_framecycle /\ xpc' # xpc) =>
             (xpc' = "loop_test" /\ frameCalls' = <<>>)]_vars
    /\ [][(xpc = "loop_test" /\ xpc' # xpc /\ ~m_quit_mainloop) =>
             xpc' = "poll_sdl"]_vars

\* the session ran and was ended; in the tick that dispatched IDLE no frame
\* cycle ran and the loop goes on polling
C28_Witness ==
    /\ xpc = "loop_test"
    /\ m_state = "IDLE"
    /\ ~m_run_framecycle
    /\ ~m_quit_mainloop
    /\ frameCalls = <<>>
    /\ CountCalls("xrEndSession") = 1

\* the step in which an InteractionProfileChanged event or an event of an
\* unrecognized type is dispatched
LoggedOnlyStep ==
    /\ DispatchStep
    /\ lastDispatch'.type \in {"INTERACTION_PROFILE_CHANGED", "OTHER"}

\* C29: dispatching an InteractionProfileChanged event or an event of an
\* unrecognized type leaves m_state, m_session_running, m_run_framecycle,
\* the quit flag and all handles unchanged and sends no request to the
\* runtime.
C29_LoggedOnlyEvents ==
    [][LoggedOnlyStep =>
          UNCHANGED <<m_state, m_session_running, m_run_framecycle,
                      m_quit_mainloop, m_instance, m_session, m_play_space,
                      m_swapchains, xrCalls, frameCalls>>]_vars

\* an event of an unrecognized type was dispatched while the session runs
C29_Witness ==
    /\ lastDispatch.type = "OTHER"
    /\ m_session_running
    /\ m_run_framecycle
    /\ ~m_quit_mainloop
    /\ m_state = "SYNCHRONIZED"

\* the step that executes Shutdown
ShutdownStep == shutdownCalls' = shutdownCalls + 1

Delivered(j) == IF lost = 0 \/ j < lost THEN j ELSE j + 1

\* the candidate pairs formed so far: those pushed and the one in the
\* producer's hands
CandidatePairs ==
    {pushLog[i] : i \in 1..Len(pushLog)}
        \cup (IF imPair.id # 0 THEN {imPair} ELSE {})

\* the two messages of the pair belong to two different source frames
MixedFrames(pair) ==
    SourceMessage(pair.msgs[1]).frame # SourceMessage(pair.msgs[2]).frame

\* the pair was received after the lost message
AfterLoss(pair) == lost # 0 /\ pair.msgs[2] > lost

\* C31: the producer pairs the messages by position: the k-th candidate
\* pair is (message 2k-1, message 2k) of the received stream; without a loss
\* every pair is (color, depth) of one frame; after the transport lost one
\* message every later pair combines messages of two different source
\* frames, and such pairs are pushed, popped and handed to TrackRGBD like
\* any other.
C31_PositionalPairing ==
    /\ \A p \in CandidatePairs :
          /\ p.msgs = <<Delivered(2 * p.id - 1), Delivered(2 * p.id)>>
          /\ AfterLoss(p) => MixedFrames(p)
          /\ ~AfterLoss(p) =>
                /\ ~MixedFrames(p)
                /\ SourceMessage(p.msgs[1]).kind = "color"
                /\ SourceMessage(p.msgs[2]).kind = "depth"
    /\ \A i \in 1..Len(trackLog) :
          /\ trackLog[i].frame \in CandidatePairs
          /\ AfterLoss(trackLog[i].frame) => MixedFrames(trackLog[i].frame)

\* the depth message of frame 1 was lost and two pairs received afterwards,
\* each made of two frames, were handed to the tracking engine
C31_Witness ==
    /\ lost = 2
    /\ Len(trackLog) >= 3
    /\ trackLog[1].frame.msgs = <<1, 3>>
    /\ MixedFrames(trackLog[2].frame)
    /\ MixedFrames(trackLog[3].frame)
    /\ trackLog[3].frame.id = trackLog[2].frame.id + 1

\* ========================================================================
\* Shutdown of the pipeline
\* ========================================================================
\* main has left the consumer loop and detached the producer thread
Detached == cpc \in {"detached", "saved"}

\* C32: the producer loop has no stop condition: after the consumer loop
\* has exited and main has detached the producer thread and gone on with
\* its shutdown, the producer still has a step to take unless it waits for
\* a message the transport does not deliver, the mutex is never kept from
\* it, and its steps include pushes on the shared queue.
C32_ProducerNeverStops ==
    /\ ppc \in {"recv", "decoded", "lock", "push", "unlock", "notify"}
    /\ Detached =>
          /\ bufferMutex # "consumer"
          /\ pushesAtDetach <= Len(pushLog)
          /\ (ENABLED ProducerNext) \/ (ppc = "recv" /\ recvPairs = MaxPairs)

\* after the detach and the saving of the results the producer has pushed
\* two more pairs and is inside the guarded block again
C32_Witness ==
    /\ cpc = "saved"
    /\ Len(pushLog) >= pushesAtDetach + 2
    /\ ppc = "push"
    /\ bufferMutex = "producer"

\* ========================================================================
\* Session handle, running flag and frame-cycle flag
\* ========================================================================
\* C33: no frame cycle is started while the session handle is null: after
\* an EXITING or LOSS_PENDING event has destroyed the session no
\* xrWaitFrame, xrBeginFrame, xrLocateViews or xrEndFrame call is issued,
\* whatever events are delivered afterwards.
C33_NoFrameCycleWithoutSession ==
    [][RenderStep => m_session # "null"]_vars

\* C34: no runtime object is destroyed twice: over any sequence of events
\* followed by any number of Shutdown calls each swapchain, the space, the
\* session and the instance receive at most one destroy call, and a second
\* Shutdown issues no destroy call.
C34_NoDoubleDestroy ==
    /\ [](\A i \in 1..Len(DestroyCalls) : \A j \in 1..Len(DestroyCalls) :
             i # j => DestroyCalls[i] # DestroyCalls[j])
    /\ [][(ShutdownStep /\ shutdownCalls >= 1) => UNCHANGED xrCalls]_vars

\* the session was destroyed at an EXITING event, a later EXITING event
\* found the handle null, and Shutdown ran twice
C34_Witness ==
    /\ shutdownCalls = 2
    /\ m_state = "EXITING"
    /\ CountCalls("xrDestroySession") = 1
    /\ CountCalls("xrDestroyInstance") = 1
    /\ CountCalls("xrDestroySpace") = 1
    /\ CountCalls("xrDestroySwapchain") = ViewCount
    /\ eventsPosted >= 2

\* C35: whenever m_session_running is true the session handle is not null.
C35_RunningImpliesSession ==
    m_session_running => m_session # "null"

\* C36: whenever m_run_framecycle is true m_session_running is true.
C36_FrameCycleImpliesRunning ==
    m_run_framecycle => m_session_running

\* ========================================================================
\* Failure of Initialize
\* ========================================================================
\* the create call and the destroy call of each kind of object
CreateDestroy ==
    {<<"xrCreateInstance", "xrDestroyInstance">>,
     <<"xrCreateSession", "xrDestroySession">>,
     <<"xrCreateReferenceSpace", "xrDestroySpace">>,
     <<"xrCreateSwapchain", "xrDestroySwapchain">>}

\* C37: if Initialize fails at a step no later step is attempted (an object
\* exists only if the objects created before it exist) and Run is not
\* entered; the Shutdown that follows issues one destroy call for each
\* object that was created and none for a null handle.
C37_InitFailure ==
    /\ [](xpc = "init_failed" =>
             /\ m_session # "null" => m_instance # "null"
             /\ m_play_space # "null" => m_session # "null"
             /\ CountCalls("xrCreateSwapchain") > 0 => m_play_space # "null"
             /\ CountCalls("xrCreateSwapchain") <= ViewCount
             /\ m_state = "UNKNOWN" /\ ~m_session_running /\ ~m_run_framecycle)
    /\ [][xpc = "init_failed" => xpc' \in {"init_failed", "shut_down"}]_vars
    /\ [][(xpc = "init_failed" /\ ShutdownStep) =>
             \A cd \in CreateDestroy :
                CountCalls(cd[2])' = CountCalls(cd[1])']_vars

\* Initialize failed in CreateSwapchains after one swapchain was created;
\* Shutdown destroyed that swapchain, the space, the session and the
\* instance
C37_Witness ==
    /\ xpc = "shut_down"
    /\ shutdownCalls = 1
    /\ CountCalls("xrCreateSwapchain") = 1
    /\ CountCalls("xrDestroySwapchain") = 1
    /\ CountCalls("xrDestroySpace") = 1
    /\ CountCalls("xrDestroySession") = 1
    /\ CountCalls("xrDestroyInstance") = 1

\* ========================================================================
\* Progress of the consumer
\* ========================================================================
\* the consumer loop was left
LoopExited == cpc \in {"done", "detached", "saved"}

\* C38: once the tracking engine reports that it was asked to stop the
\* consumer loop eventually exits, also when the queue is empty and the
\* producer pushes nothing more; and after the stop is reported at most one
\* more frame is handed to TrackRGBD: the consumer that reaches the test
\* after the stop leaves the loop.
C38_ShutDownExitsLoop ==
    /\ slamShutDown ~> LoopExited
    /\ [][(slamShutDown /\ cpc = "check" /\ cpc' # cpc) => cpc' = "done"]_vars
    /\ [][(cpc = "track" /\ cpc' # cpc) => cpc' = "check"]_vars

\* C39: no lost wakeup: with both threads scheduled the consumer is not
\* blocked forever while the queue is non-empty: a consumer blocked with a
\* non-empty queue has a notification of the producer still to come, and
\* it eventually pops.
C39_NoLostWakeup ==
    /\ []((cpc = "blocked" /\ Len(imageBuffer) > 0) =>
             ppc \in {"unlock", "notify"})
    /\ (cpc = "blocked" /\ Len(imageBuffer) > 0) ~> (cpc = "unlock")

\* the producer has pushed while the consumer was blocked and has not yet
\* notified
C39_Witness ==
    /\ cpc = "blocked"
    /\ Len(imageBuffer) = 1
    /\ ppc = "notify"
    /\ Len(popLog) >= 1

\* the members of a sequence
Range(q) == {q[i] : i \in 1..Len(q)}

NoDuplicates(q) == \A i \in 1..Len(q) : \A j \in 1..Len(q) : i # j => q[i] # q[j]

\* C40: frame conservation: each pair that was pushed is in exactly one of
\* three places, resident in the queue, evicted by a later push, or handed
\* to the consumer once; no pair is delivered twice and the consumer
\* receives only pairs that were pushed.
C40_FrameConservation ==
    /\ NoDuplicates(pushLog)
    /\ NoDuplicates(imageBuffer \o evictLog \o popLog)
    /\ Range(imageBuffer \o evictLog \o popLog) = Range(pushLog)
    /\ \A p \in Range(pushLog) : ~DecodeFailed(p)
    /\ \A i \in 1..Len(trackLog) : trackLog[i].frame = popLog[i]
    /\ Len(popLog) - Len(trackLog) \in {0, 1}

\* pairs are in all three places
C40_Witness ==
    /\ Len(evictLog) >= 2
    /\ Len(popLog) >= 2
    /\ Len(imageBuffer) >= 2
    /\ Len(trackLog) = Len(popLog)
====
